---- MODULE Spec2Model ----
(***************************************************************************)
(* Model of the EVM code generator of frangio/evm-spilling.                *)
(*                                                                         *)
(* generate (src/src/codegen.rs) compiles a resolved straight-line block   *)
(* in four passes: occurrence counting, scheduling on an abstract stack    *)
(* machine (pre-instructions), spill planning (make_spills) and lowering   *)
(* to final instructions.  The model follows the passes step by step and   *)
(* then runs the emitted stream on a reference (stack, memory) machine.    *)
(***************************************************************************)
EXTENDS Integers, Sequences, FiniteSets, TLC

(***************************************************************************)
(* Bounds of the model and program constants.                              *)
(***************************************************************************)
\* largest number of leading const statements of a shallow family block
Shallow == 3
\* number of deep prefix lengths: the deep family blocks start with
\* Window+1 .. Window+DeepExtra const statements
DeepExtra == 2
\* largest number of operator statements after the const prefix
MaxOps == 1

\* the reachable window of the planner and of lowering (depth < 16)
Window == 16
\* Option::None of the lowering stack and of VarMeta.copy_index
None == -1
\* bytes of a 256-bit word, and the size of a byte
WordBytes == 32
ByteMod == 256

(***************************************************************************)
(* 256-bit words (alloy_primitives::U256) as 32 big-endian bytes.          *)
(***************************************************************************)
RECURSIVE Pow256(_)
Pow256(k) == IF k = 0 THEN 1 ELSE ByteMod * Pow256(k - 1)

\* the word of a small natural number (n < 2^24)
Word(n) == [i \in 1..WordBytes |->
              IF i <= WordBytes - 3 THEN 0
              ELSE (n \div Pow256(WordBytes - i)) % ByteMod]

WMax == [i \in 1..WordBytes |-> ByteMod - 1]

WZero == [i \in 1..WordBytes |-> 0]

\* bytes i..1 of a + b with carry c into byte i, least significant last
RECURSIVE AddBytes(_, _, _, _)
AddBytes(a, b, i, c) ==
    IF i = 0 THEN << >>
    ELSE LET s == a[i] + b[i] + c
         IN  Append(AddBytes(a, b, i - 1, s \div ByteMod), s % ByteMod)

\* addition modulo 2^256 (the carry out of the top byte is dropped)
WAdd(a, b) == AddBytes(a, b, WordBytes, 0)

(***************************************************************************)
(* The instruction vocabulary (src/src/evm.rs) and the input               *)
(* (src/src/program.rs, src/src/scope.rs).                                 *)
(*                                                                         *)
(* A statement is [ress, kind, c, op, args]: kind "const" with the literal *)
(* c, or kind "op" with the operator name and its argument variables.      *)
(* Variables are the dense indices 0..var_count-1 of the resolver.         *)
(***************************************************************************)
\* DataInstruction::from_str: the operator names that parse
OpNames == {"pop", "mstore", "mload", "add"}

\* DataInstruction::arity as <<nargs, nres>>
arity(op) ==
    CASE op = "pop"    -> <<1, 0>>
      [] op = "mstore" -> <<2, 0>>
      [] op = "mload"  -> <<1, 1>>
      [] op = "add"    -> <<2, 1>>

Const(r, c) == [ress |-> <<r>>, kind |-> "const", c |-> c, op |-> "", args |-> << >>]

Op(ress, op, args) == [ress |-> ress, kind |-> "op", c |-> WZero, op |-> op, args |-> args]

RECURSIVE SumLen(_, _)
SumLen(b, i) == IF i = 0 THEN 0 ELSE Len(b[i].ress) + SumLen(b, i - 1)

\* ResolvedBlock.var_count: one fresh index per declared result
VarCount(b) == SumLen(b, Len(b))

\* occurrences of variable v among the arguments of statements i..Len(b)
RECURSIVE CountFrom(_, _, _)
CountFrom(b, v, i) ==
    IF i > Len(b) THEN 0
    ELSE Cardinality({j \in 1..Len(b[i].args) : b[i].kind = "op" /\ b[i].args[j] = v})
         + CountFrom(b, v, i + 1)

\* a faulty count of the statements that read v, not of the positions
count_occurrences_stmts(b) ==
    [v \in 0..(VarCount(b) - 1) |->
        Cardinality({i \in 1..Len(b) :
                        b[i].kind = "op" /\ \E j \in 1..Len(b[i].args) : b[i].args[j] = v})]

\* count_occurrences: for each variable, how often it is an operator argument
count_occurrences(b) == [v \in 0..(VarCount(b) - 1) |-> CountFrom(b, v, 1)]

(***************************************************************************)
(* The inputs of the model: the scenario blocks of the specification and   *)
(* of main.rs, and a family of blocks made of a prefix of const            *)
(* statements, at most MaxOps operator statements over the first, second   *)
(* and last constant and the latest result, and a tail of pops that keeps  *)
(* constants live.  Every block satisfies the input contract of the        *)
(* resolver: each variable is the result of one statement, which precedes  *)
(* its uses.                                                               *)
(***************************************************************************)
\* the literal of the i-th constant of a family block with n constants
ConstVal(i, n) ==
    CASE i = 0             -> Word(0)
      [] i = 1             -> Word(1)
      [] i > 1 /\ i = n - 1 -> WMax
      [] OTHER             -> Word(10 + i)

ConstPrefix(n) == [i \in 1..n |-> Const(i - 1, ConstVal(i - 1, n))]

ArgRefs == {"first", "second", "last", "res"}

\* an operator statement of the family: the name and its argument references
OpShapes ==
    {<<op, <<r>>>> : op \in {"pop", "mload"}, r \in ArgRefs}
    \cup {<<op, <<r1, r2>>>> : op \in {"add", "mstore"}, r1 \in ArgRefs, r2 \in ArgRefs}

Suffixes == UNION {[1..m -> OpShapes] : m \in 0..MaxOps}

\* the variable a reference names; res is the latest result (None if none)
RefVar(ref, n, res) ==
    CASE ref = "first"  -> IF n >= 1 THEN 0 ELSE None
      [] ref = "second" -> IF n >= 2 THEN 1 ELSE None
      [] ref = "last"   -> IF n >= 1 THEN n - 1 ELSE None
      [] ref = "res"    -> res

\* the statements of shapes i.., nv variables defined so far
RECURSIVE SuffixStmts(_, _, _, _, _)
SuffixStmts(shapes, i, n, nv, res) ==
    IF i > Len(shapes) THEN << >>
    ELSE LET op   == shapes[i][1]
             refs == shapes[i][2]
             args == [j \in 1..Len(refs) |-> RefVar(refs[j], n, res)]
             nres == arity(op)[2]
             ress == [j \in 1..nres |-> nv + j - 1]
         IN  <<Op(ress, op, args)>>
             \o SuffixStmts(shapes, i + 1, n, nv + nres,
                            IF nres > 0 THEN nv ELSE res)

\* every reference of the statements names a defined variable
WellScoped(b) ==
    \A i \in 1..Len(b) : \A j \in 1..Len(b[i].args) :
        b[i].args[j] >= 0 /\ b[i].args[j] < SumLen(b, i - 1)

\* how the tail treats the constants: it pops all of them, those no
\* operator reads, those and the first constant, or none
TailModes == {"all", "unread", "first", "none"}

\* the constants the tail pops
TailVars(n, ops, mode) ==
    {v \in 0..(n - 1) :
        /\ mode # "none"
        /\ \/ mode = "all"
           \/ mode = "first" /\ v = 0
           \/ \A i \in 1..Len(ops) : \A j \in 1..Len(ops[i].args) : ops[i].args[j] # v}

\* pops of the variables of vs in ascending or descending order
RECURSIVE PopTail(_, _)
PopTail(vs, desc) ==
    IF vs = {} THEN << >>
    ELSE LET v == CHOOSE x \in vs : \A y \in vs : IF desc THEN y <= x ELSE x <= y
         IN  <<Op(<< >>, "pop", <<v>>)>> \o PopTail(vs \ {v}, desc)

FamilyBlock(n, shapes, mode, desc) ==
    LET ops == SuffixStmts(shapes, 1, n, n, None)
    IN  ConstPrefix(n) \o ops \o PopTail(TailVars(n, ops, mode), desc)

PrefixLens == (0..Shallow) \cup ((Window + 1)..(Window + DeepExtra))

Family ==
    {b \in {FamilyBlock(n, shapes, mode, desc) :
                n \in PrefixLens, shapes \in Suffixes, mode \in TailModes, desc \in BOOLEAN} :
        WellScoped(b)}

\* S1: let x = const 0; let p = const 1; mstore p x; let y = mload p;
S1Block == << Const(0, Word(0)), Const(1, Word(1)),
              Op(<< >>, "mstore", <<1, 0>>), Op(<<2>>, "mload", <<1>>) >>

\* S2: let a = const 7; let b = const 8; let c = add a b; pop c;
S2Block == << Const(0, Word(7)), Const(1, Word(8)),
              Op(<<2>>, "add", <<0, 1>>), Op(<< >>, "pop", <<2>>) >>

\* S3: let a = const 3; let b = add a a;
S3Block == << Const(0, Word(3)), Op(<<1>>, "add", <<0, 0>>) >>

\* the 17 constants p00..p16 = 10..26 of main.rs
MainConsts == [i \in 1..(Window + 1) |-> Const(i - 1, Word(9 + i))]

\* S4, the input of main.rs: 17 constants, let y = mload p00, then
\* pop p15 .. pop p01, pop p16
MainBlock ==
    MainConsts \o << Op(<<Window + 1>>, "mload", <<0>>) >>
    \o [i \in 1..(Window - 1) |-> Op(<< >>, "pop", <<Window - i>>)]
    \o << Op(<< >>, "pop", <<Window>>) >>

\* S5: 17 constants, pop p00 (from depth 16), then pop p16 .. pop p01
S5Block ==
    MainConsts \o << Op(<< >>, "pop", <<0>>) >>
    \o [i \in 1..Window |-> Op(<< >>, "pop", <<Window + 1 - i>>)]

\* 17 constants (0, 1, 12 .. 25, 2^256 - 1), let y = mload of the first,
\* mstore of y at the second, then pops of the other constants: user
\* memory accesses at addresses 0 and 1
OverlapBlock ==
    FamilyBlock(Window + 1,
                << <<"mload", <<"first">>>>, <<"mstore", <<"second", "res">>>> >>,
                "unread", FALSE)

PopOf(v) == Op(<< >>, "pop", <<v>>)

\* 22 constants of which only the bottom of the stack is ever beyond the
\* window: p00 .. p16, pop p00, pop p16, two more constants, pop p15 and
\* the two, three more constants, pop p14, then pops of the rest
RetroBlock ==
    MainConsts
    \o << PopOf(0), PopOf(Window),
          Const(Window + 1, Word(27)), Const(Window + 2, Word(28)),
          PopOf(Window - 1), PopOf(Window + 1), PopOf(Window + 2),
          Const(Window + 3, Word(29)), Const(Window + 4, Word(30)),
          Const(Window + 5, Word(31)),
          PopOf(Window - 2), PopOf(Window + 5), PopOf(Window + 4), PopOf(Window + 3) >>
    \o [i \in 1..(Window - 3) |-> PopOf(Window - 2 - i)]

\* 17 constants; pop p00 (deep: p00 was spilled outward, p16 takes its
\* register); pop p16 (restored inward: the register is free again);
\* pop p01 while it is used later (a copy, from depth 13); three more
\* constants bury p01 at depth 16; pop p01 (deep: p01 is spilled outward
\* after the restore, with the free list not empty); then the rest
ReuseBlock ==
    MainConsts
    \o << PopOf(0), PopOf(Window), PopOf(1),
          Const(Window + 1, Word(27)), Const(Window + 2, Word(28)),
          Const(Window + 3, Word(29)),
          PopOf(1), PopOf(Window + 3), PopOf(Window + 2), PopOf(Window + 1) >>
    \o [i \in 1..(Window - 3) |-> PopOf(Window - 1 - i)]
    \o << PopOf(Window - 1) >>

\* 33 constants; pop p16 while it is used later (a copy from depth 16:
\* p16 is spilled outward); pop p32 .. p17, which leaves p16 on top in its
\* register; pop p00 (deep: p00 was spilled outward, the register of the
\* top p16 is freed and p16 takes the one of p00); pop p16 (restored);
\* then the rest
ExchangeBlock ==
    [i \in 1..(2 * Window + 1) |-> Const(i - 1, Word(9 + i))]
    \o << PopOf(Window) >>
    \o [i \in 1..Window |-> PopOf(2 * Window + 1 - i)]
    \o << PopOf(0), PopOf(Window) >>
    \o [i \in 1..(Window - 1) |-> PopOf(Window - i)]

\* 17 constants (0, 1, 12 .. 25, 2^256 - 1) summed from the first-defined
\* on: let s1 = add v0 v1; let s2 = add s1 v2; .. let s16 = add s15 v16
SumBlock ==
    ConstPrefix(Window + 1)
    \o [i \in 1..Window |->
           Op(<<Window + i>>, "add", <<IF i = 1 THEN 0 ELSE Window + i - 1, i>>)]

\* a const statement declaring the results ress
ConstOf(ress, c) == [ress |-> ress, kind |-> "const", c |-> c, op |-> "", args |-> << >>]

\* blocks with statements generate rejects: a const with two results and
\* one with none; an add with one argument followed by an unknown operator;
\* an mload with two results; an unknown operator; an unknown operator
\* with no argument; a pop with two arguments and a result; an mstore with
\* a result after 17 constants and a pop; and an unknown operator after
\* "let b = add a a"
RejectedBlocks ==
    { << ConstOf(<<0, 1>>, Word(1)), PopOf(0), PopOf(1) >>,
      << Const(0, Word(1)), ConstOf(<< >>, Word(2)), PopOf(0) >>,
      << Const(0, Word(1)), Const(1, Word(2)),
         Op(<<2>>, "add", <<0>>), Op(<< >>, "mul", <<1>>) >>,
      << Const(0, Word(1)), Op(<<1, 2>>, "mload", <<0>>) >>,
      << Const(0, Word(1)), Const(1, Word(2)), Op(<<2>>, "mul", <<0, 1>>) >>,
      << Const(0, Word(1)), Op(<< >>, "stop", << >>) >>,
      << Const(0, Word(1)), Op(<<1>>, "pop", <<0, 0>>) >>,
      MainConsts \o << PopOf(0), Op(<<Window + 1>>, "mstore", <<1, 2>>) >>,
      << Const(0, Word(3)), Op(<<1>>, "add", <<0, 0>>), Op(<< >>, "mul", <<1>>) >> }

Scenarios ==
    {S1Block, S2Block, S3Block, MainBlock, S5Block, OverlapBlock, RetroBlock, SumBlock,
     ReuseBlock, ExchangeBlock}

Programs == Scenarios \cup Family \cup RejectedBlocks

(***************************************************************************)
(* The resolver (src/src/scope.rs).  A parsed block has the statements of  *)
(* a resolved one with names (strings) for results and arguments.  Env is  *)
(* a function from the names bound so far to their Var index.  The state   *)
(* of the fold over the statements is [env, i, ss, err]: the environment,  *)
(* the next fresh index, the statements resolved so far and the message    *)
(* of the first error ("" while there is none).                            *)
(***************************************************************************)
\* Env::new
EnvNew == << >>

\* Env::get: the Var of the name, or the error
EnvGet(env, name) ==
    IF name \in DOMAIN env
    THEN [var |-> env[name], err |-> ""]
    ELSE [var |-> None, err |-> "Unknown variable: " \o name]

\* a faulty insert that keeps the binding a name already has
EnvInsert_keep(env, name, value) ==
    [n \in DOMAIN env \cup {name} |-> IF n \in DOMAIN env THEN env[n] ELSE value]

\* Env::insert: HashMap::insert replaces the binding of the name
EnvInsert(env, name, value) ==
    [n \in DOMAIN env \cup {name} |-> IF n = name THEN value ELSE env[n]]

\* the map over vs from its l-th name on: Var { index: i }, i += 1,
\* env.insert(v, vi)
RECURSIVE BindResults(_, _, _, _)
BindResults(env, vs, i, l) ==
    IF l > Len(vs) THEN env
    ELSE BindResults(EnvInsert(env, vs[l], i), vs, i + 1, l + 1)

\* the closure of resolve on one statement: the arguments are looked up
\* in the environment of the statements before (the first failure is the
\* error: collect::<Result<_>>()?), then each result takes a fresh index
ResolveStatement(st, s) ==
    LET gets   == [j \in 1..Len(st.args) |-> EnvGet(s.env, st.args[j])]
        failed == {j \in 1..Len(st.args) : gets[j].err # ""}
        first  == CHOOSE j \in failed : \A k \in failed : j <= k
        n      == Len(st.ress)
        e      == [st EXCEPT !.args = [j \in 1..Len(st.args) |-> gets[j].var],
                             !.ress = [l \in 1..n |-> s.i + l - 1]]
    IN  IF st.kind = "op" /\ failed # {}
        THEN [s EXCEPT !.err = gets[first].err]
        ELSE [s EXCEPT !.env = BindResults(s.env, st.ress, s.i, 1),
                       !.i = s.i + n,
                       !.ss = Append(s.ss, e)]

\* the statements from the k-th on, up to the first error
RECURSIVE ResolveFrom(_, _, _)
ResolveFrom(ss, k, s) ==
    IF k > Len(ss) \/ s.err # "" THEN s
    ELSE ResolveFrom(ss, k + 1, ResolveStatement(ss[k], s))

\* resolve: Ok(ResolvedBlock { block, var_count }) or the error
resolve(ss) ==
    LET s == ResolveFrom(ss, 1, [env |-> EnvNew, i |-> 0, ss |-> << >>, err |-> ""])
    IN  IF s.err # ""
        THEN [block |-> << >>, var_count |-> 0, err |-> s.err]
        ELSE [block |-> s.ss, var_count |-> s.i, err |-> ""]

\* the names p00, p01, .. of main.rs
VarNames ==
    << "p00", "p01", "p02", "p03", "p04", "p05", "p06", "p07", "p08", "p09",
       "p10", "p11", "p12", "p13", "p14", "p15", "p16", "p17", "p18", "p19",
       "p20", "p21", "p22", "p23", "p24", "p25", "p26", "p27", "p28", "p29",
       "p30", "p31", "p32", "p33", "p34", "p35" >>

\* the source of a block in which variable v is written VarNames[v + 1]
Named(b) ==
    [k \in 1..Len(b) |->
        [b[k] EXCEPT !.ress = [l \in 1..Len(b[k].ress) |-> VarNames[b[k].ress[l] + 1]],
                     !.args = [j \in 1..Len(b[k].args) |-> VarNames[b[k].args[j] + 1]]]]

\* sources in which names are declared again or are not bound:
\*   let a = const 1; let b = const 2; let a = add a b; let b = add a b;
\*       pop a; pop b;
\*   let a = const 1; let a = const 2; pop a;
\*   let a = const 1; let a = mload a; pop a;
\*   let a, a = const 1; pop a;
\*   let a = const 1; pop b;
\*   let a = add a a;
\*   let a = const 1; let b = add a d; let c = add c a;
\*   let a = const 1; pop a; pop c; let c = const 2;
ShadowSources ==
    { << Const("a", Word(1)), Const("b", Word(2)),
         Op(<<"a">>, "add", <<"a", "b">>), Op(<<"b">>, "add", <<"a", "b">>),
         PopOf("a"), PopOf("b") >>,
      << Const("a", Word(1)), Const("a", Word(2)), PopOf("a") >>,
      << Const("a", Word(1)), Op(<<"a">>, "mload", <<"a">>), PopOf("a") >>,
      << ConstOf(<<"a", "a">>, Word(1)), PopOf("a") >>,
      << Const("a", Word(1)), PopOf("b") >>,
      << Op(<<"a">>, "add", <<"a", "a">>) >>,
      << Const("a", Word(1)), Op(<<"b">>, "add", <<"a", "d">>),
         Op(<<"c">>, "add", <<"c", "a">>) >>,
      << Const("a", Word(1)), PopOf("a"), PopOf("c"), Const("c", Word(2)) >> }

\* the parsed blocks the runs start from
Sources == {Named(b) : b \in Programs} \cup ShadowSources

(***************************************************************************)
(* The abstract stack machine (struct Machine).  Stack indices are those   *)
(* of the code (0 is the bottom): stack[i + 1] is the entry of index i.    *)
(* The field panic holds the message of the first failed assertion or      *)
(* unwrap ("" while none failed); a panicked machine is left as it is.     *)
(***************************************************************************)
Main(v) == <<"Main", v>>

Copy(v) == <<"Copy", v>>

Rotate(from_depth, to_depth) == <<"rot", from_depth, to_depth>>

Dup(depth) == <<"dup", depth>>

Push(c) == <<"push", c>>

Data(op) == <<"data", op>>

\* Machine::new
NewMachine == [code |-> << >>, stack |-> << >>, meta |-> << >>, panic |-> ""]

Fail(m, msg) == IF m.panic = "" THEN [m EXCEPT !.panic = msg] ELSE m

VarMeta(main_index, copy_index) == [main_index |-> main_index, copy_index |-> copy_index]

\* meta.insert(name, value)
MetaInsert(meta, name, value) ==
    [v \in DOMAIN meta \cup {name} |-> IF v = name THEN value ELSE meta[v]]

\* meta.remove(&name)
\* a faulty removal that keeps the entry
MetaRemove_keep(meta, name) == meta

MetaRemove(meta, name) == [v \in DOMAIN meta \ {name} |-> meta[v]]

\* Machine::set_location; index None removes the instance
set_location(m, instance, index) ==
    LET name == instance[2]
    IN  IF m.panic # "" THEN m
        ELSE IF name \notin DOMAIN m.meta
        THEN Fail(m, "called Option::unwrap() on a None value")
        ELSE IF instance[1] = "Main"
        THEN IF index # None
             THEN [m EXCEPT !.meta[name].main_index = index]
             ELSE IF m.meta[name].copy_index # None
                  THEN Fail([m EXCEPT !.meta = MetaRemove(m.meta, name)],
                            "assertion failed: meta.copy_index.is_none()")
                  ELSE [m EXCEPT !.meta = MetaRemove(m.meta, name)]
        ELSE [m EXCEPT !.meta[name].copy_index = index]

\* Machine::find: the depth of the copy of name if there is one, else of
\* its main instance (name has a meta)
find(m, name) ==
    LET meta  == m.meta[name]
        index == IF meta.copy_index # None THEN meta.copy_index ELSE meta.main_index
    IN  Len(m.stack) - 1 - index

\* Vec::swap of the lowering and planner stacks and of the machine stack
SwapAt(stack, i, j) == [stack EXCEPT ![i + 1] = stack[j + 1], ![j + 1] = stack[i + 1]]

\* Machine::stack_swap
stack_swap(m, from_depth, to_depth) ==
    LET top_index  == Len(m.stack) - 1
        from_index == top_index - from_depth
        to_index   == top_index - to_depth
    IN  IF m.panic # "" THEN m
        ELSE IF from_index < 0 \/ to_index < 0
        THEN Fail(m, "index out of bounds")
        ELSE LET from_instance == m.stack[from_index + 1]
                 to_instance   == m.stack[to_index + 1]
                 m1 == [m EXCEPT !.stack = SwapAt(m.stack, from_index, to_index)]
                 m2 == set_location(m1, from_instance, to_index)
             IN  set_location(m2, to_instance, from_index)

EmitPre(m, instr) == IF m.panic # "" THEN m ELSE [m EXCEPT !.code = Append(m.code, instr)]

\* a faulty pop that forgets the POP instruction
pop_silent(m) ==
    IF m.panic # "" THEN m
    ELSE IF m.stack = << >> THEN Fail(m, "called Option::unwrap() on a None value")
    ELSE EmitPre(set_location([m EXCEPT !.stack = SubSeq(m.stack, 1, Len(m.stack) - 1)],
                              m.stack[Len(m.stack)], None),
                 Rotate(0, 0))

\* Machine::pop
pop(m) ==
    IF m.panic # "" THEN m
    ELSE IF m.stack = << >> THEN Fail(m, "called Option::unwrap() on a None value")
    ELSE LET instance == m.stack[Len(m.stack)]
             m1 == [m EXCEPT !.stack = SubSeq(m.stack, 1, Len(m.stack) - 1)]
             m2 == set_location(m1, instance, None)
         IN  EmitPre(EmitPre(m2, Rotate(0, 0)), Data("pop"))

\* Machine::push
push(m, name, value) ==
    IF m.panic # "" THEN m
    ELSE [m EXCEPT !.stack = Append(m.stack, Main(name)),
                   !.meta = MetaInsert(m.meta, name, VarMeta(Len(m.stack), None)),
                   !.code = Append(m.code, Push(value))]

\* Machine::rotate_to
rotate_to(m, from_name, to_depth) ==
    IF m.panic # "" THEN m
    ELSE IF ~(to_depth <= Window) THEN Fail(m, "Swap too deep")
    ELSE IF from_name \notin DOMAIN m.meta
    THEN Fail(m, "called Option::unwrap() on a None value")
    ELSE LET from_depth == find(m, from_name)
             m1 == stack_swap(m, from_depth, 0)
             m2 == stack_swap(m1, 0, to_depth)
         IN  EmitPre(m2, Rotate(from_depth, to_depth))

\* a faulty copy_to that leaves the copy on top whatever to_depth is
copy_to_top(m, from_name, to_depth) ==
    IF m.panic # "" THEN m
    ELSE IF from_name \notin DOMAIN m.meta
    THEN Fail(m, "called Option::unwrap() on a None value")
    ELSE LET m1 == [m EXCEPT !.stack = Append(m.stack, Copy(from_name))]
         IN  EmitPre(set_location(m1, Copy(from_name), Len(m1.stack) - 1),
                     Dup(find(m, from_name)))

\* Machine::copy_to
copy_to(m, from_name, to_depth) ==
    IF m.panic # "" THEN m
    ELSE IF ~(to_depth <= Window) THEN Fail(m, "Copy too deep")
    ELSE IF from_name \notin DOMAIN m.meta
    THEN Fail(m, "called Option::unwrap() on a None value")
    ELSE LET from_depth == find(m, from_name)
             m1 == [m EXCEPT !.stack = Append(m.stack, Copy(from_name))]
             m2 == set_location(m1, Copy(from_name), Len(m1.stack) - 1)
             m3 == EmitPre(m2, Dup(from_depth))
         IN  IF to_depth # 0
             THEN EmitPre(stack_swap(m3, 0, to_depth), Rotate(0, to_depth))
             ELSE m3

\* set_location(instance, None) for the instances removed[i..], in order
RECURSIVE RemoveAll(_, _, _)
RemoveAll(m, removed, i) ==
    IF i > Len(removed) THEN m
    ELSE RemoveAll(set_location(m, removed[i], None), removed, i + 1)

\* meta.insert for the results ress[i..], the first at index stack_base
RECURSIVE InsertResults(_, _, _, _)
InsertResults(meta, ress, i, stack_base) ==
    IF i > Len(ress) THEN meta
    ELSE InsertResults(MetaInsert(meta, ress[i], VarMeta(stack_base + i - 1, None)),
                       ress, i + 1, stack_base)

\* Machine::apply
apply(m, op, ress) ==
    LET nargs      == arity(op)[1]
        stack_base == Len(m.stack) - nargs
    IN  IF m.panic # "" THEN m
        ELSE IF stack_base < 0 THEN Fail(m, "attempt to subtract with overflow")
        ELSE LET removed == SubSeq(m.stack, stack_base + 1, Len(m.stack))
                 m1 == [m EXCEPT !.stack = SubSeq(m.stack, 1, stack_base)]
                 m2 == RemoveAll(m1, removed, 1)
             IN  IF m2.panic # "" THEN m2
                 ELSE [m2 EXCEPT
                         !.stack = m2.stack \o [i \in 1..Len(ress) |-> Main(ress[i])],
                         !.code = Append(m2.code, Data(op)),
                         !.meta = InsertResults(m2.meta, ress, 1, stack_base)]

(***************************************************************************)
(* The spill planner (make_spills).  A status is <<"Unspillable">>,        *)
(* <<"MaybeSpilled", code_index, depth>>, <<"Spilled">>,                   *)
(* <<"MaybeRestored", code_index, depth>> or <<"Restored">>; a spill       *)
(* record is [code_index, depth, outward].  Code indices count from 0.     *)
(* The planner state is [stack, spills, panic].                            *)
(***************************************************************************)
Unspillable == <<"Unspillable">>

MaybeSpilled(code_index, depth) == <<"MaybeSpilled", code_index, depth>>

Spilled == <<"Spilled">>

MaybeRestored(code_index, depth) == <<"MaybeRestored", code_index, depth>>

Restored == <<"Restored">>

Spill(code_index, depth, outward) ==
    [code_index |-> code_index, depth |-> depth, outward |-> outward]

\* a faulty set_reachable_at that leaves a Spilled status as it is
set_reachable_at_spilled(state, index, code_index, depth) ==
    LET status == state.stack[index + 1]
    IN  IF state.panic # "" THEN state
        ELSE IF ~(depth < Window) THEN Fail(state, "assertion failed: location.depth < 16")
        ELSE CASE status[1] = "Unspillable"   -> state
               [] status[1] = "MaybeSpilled"  ->
                    [state EXCEPT !.stack[index + 1] = MaybeSpilled(code_index, depth)]
               [] status[1] = "Spilled"       -> state
               [] status[1] = "MaybeRestored" -> state
               [] status[1] = "Restored"      -> Fail(state, "already restored?")

\* SpillStatus::set_reachable_at on the status of index
set_reachable_at(state, index, code_index, depth) ==
    LET status == state.stack[index + 1]
    IN  IF state.panic # "" THEN state
        ELSE IF ~(depth < Window) THEN Fail(state, "assertion failed: location.depth < 16")
        ELSE CASE status[1] = "Unspillable"   -> state
               [] status[1] = "MaybeSpilled"  ->
                    [state EXCEPT !.stack[index + 1] = MaybeSpilled(code_index, depth)]
               [] status[1] = "Spilled"       ->
                    [state EXCEPT !.stack[index + 1] = MaybeRestored(code_index, depth)]
               [] status[1] = "MaybeRestored" -> state
               [] status[1] = "Restored"      -> Fail(state, "already restored?")

\* a faulty ensure_reachable that treats depth 2 and below as unreachable
ensure_reachable_shallow(state, depth) ==
    IF state.panic # "" \/ depth < 2 \/ Len(state.stack) - 1 - depth < 0 THEN state
    ELSE LET index  == Len(state.stack) - 1 - depth
             status == state.stack[index + 1]
         IN  IF status[1] = "MaybeSpilled"
             THEN [state EXCEPT !.stack[index + 1] = Spilled,
                                !.spills = Append(state.spills,
                                                  Spill(status[2], status[3], TRUE))]
             ELSE state

\* State::ensure_reachable
ensure_reachable(state, depth) ==
    IF state.panic # "" THEN state
    ELSE IF depth >= Window
    THEN LET index  == Len(state.stack) - 1 - depth
             status == state.stack[index + 1]
         IN  IF index < 0 THEN Fail(state, "index out of bounds")
             ELSE CASE status[1] = "Unspillable"   ->
                         Fail(state, "unspillable accessed too deep")
                    [] status[1] = "MaybeSpilled"  ->
                         [state EXCEPT !.stack[index + 1] = Spilled,
                                       !.spills = Append(state.spills,
                                                         Spill(status[2], status[3], TRUE))]
                    [] status[1] = "Spilled"       -> state
                    [] status[1] = "MaybeRestored" ->
                         [state EXCEPT !.stack[index + 1] = Spilled]
                    [] status[1] = "Restored"      ->
                         Fail(state, "restored back too deep")
    ELSE state

\* the Rotate arm of make_spills
PlanRotate(state, code_index, from_depth, to_depth) ==
    LET top_index  == Len(state.stack) - 1
        from_index == top_index - from_depth
        to_index   == top_index - to_depth
    IN  IF ~(to_depth < Window) THEN Fail(state, "assertion failed: to_depth < 16")
        ELSE IF from_index < 0 \/ to_index < 0 THEN Fail(state, "index out of bounds")
        ELSE LET s1 == ensure_reachable(state, from_depth)
                 s2 == IF s1.panic # "" THEN s1
                       ELSE IF from_depth < Window
                       THEN set_reachable_at(s1, from_index, code_index, to_depth)
                       ELSE IF s1.stack[top_index + 1] = Unspillable
                       THEN Fail(s1, "assertion failed: top is Unspillable")
                       ELSE IF [s1.stack EXCEPT ![top_index + 1] = Spilled][from_index + 1]
                                 # Spilled
                       THEN Fail(s1, "assertion failed: from is not Spilled")
                       ELSE [s1 EXCEPT !.stack = [[s1.stack EXCEPT ![top_index + 1] = Spilled]
                                                     EXCEPT ![from_index + 1] = Restored]]
             IN  IF s2.panic # "" THEN s2
                 ELSE [s2 EXCEPT !.stack = SwapAt(SwapAt(s2.stack, from_index, top_index),
                                                  top_index, to_index)]

\* the Dup arm of make_spills
PlanDup(state, code_index, depth) ==
    LET s1 == ensure_reachable(state, depth)
        index == Len(state.stack) - 1 - depth
        s2 == IF s1.panic # "" THEN s1
              ELSE IF depth + 1 < Window
              THEN IF index < 0 THEN Fail(s1, "index out of bounds")
                   ELSE set_reachable_at(s1, index, code_index, depth + 1)
              ELSE s1
    IN  IF s2.panic # "" THEN s2
        ELSE [s2 EXCEPT !.stack = Append(s2.stack, Unspillable)]

\* the inward records of the drained statuses drained[i..], or the panic
RECURSIVE PlanDrain(_, _, _)
PlanDrain(state, drained, i) ==
    IF i > Len(drained) \/ state.panic # "" THEN state
    ELSE LET status == drained[i]
         IN  PlanDrain(
                 IF status[1] = "MaybeRestored"
                 THEN [state EXCEPT !.spills = Append(state.spills,
                                                      Spill(status[2], status[3], FALSE))]
                 ELSE IF status[1] = "Spilled"
                 THEN Fail(state, "spilled value not restored")
                 ELSE state,
                 drained, i + 1)

\* the Data arm of make_spills
PlanData(state, code_index, op) ==
    LET nargs == arity(op)[1]
        nress == arity(op)[2]
        base  == Len(state.stack) - nargs
    IN  IF base < 0 THEN Fail(state, "attempt to subtract with overflow")
        ELSE LET s1 == PlanDrain([state EXCEPT !.stack = SubSeq(state.stack, 1, base)],
                                 SubSeq(state.stack, base + 1, Len(state.stack)), 1)
             IN  IF s1.panic # "" THEN s1
                 ELSE [s1 EXCEPT !.stack = s1.stack
                          \o [i \in 1..nress |-> MaybeSpilled(code_index, nress - i)]]

\* one round of the loop of make_spills over machine.code
PlanInstr(state, code_index, instr) ==
    IF state.panic # "" THEN state
    ELSE CASE instr[1] = "rot"  -> PlanRotate(state, code_index, instr[2], instr[3])
           [] instr[1] = "dup"  -> PlanDup(state, code_index, instr[2])
           [] instr[1] = "push" ->
                [state EXCEPT !.stack = Append(state.stack, MaybeSpilled(code_index, 0))]
           [] instr[1] = "data" -> PlanData(state, code_index, instr[2])

\* the planner state before the loop
NewPlan == [stack |-> << >>, spills |-> << >>, panic |-> ""]

\* spill s inserted into the sorted list sorted, after the records whose
\* code_index is not larger
RECURSIVE InsertSpill(_, _)
InsertSpill(sorted, s) ==
    IF sorted = << >> THEN <<s>>
    ELSE IF sorted[Len(sorted)].code_index <= s.code_index THEN Append(sorted, s)
    ELSE Append(InsertSpill(SubSeq(sorted, 1, Len(sorted) - 1), s), sorted[Len(sorted)])

\* a faulty sort that leaves the records in the order of their creation
SortSpills_asis(spills, k) == SubSeq(spills, 1, k)

\* spills.sort_unstable_by_key(|s| s.location.code_index)
RECURSIVE SortSpills(_, _)
SortSpills(spills, k) ==
    IF k = 0 THEN << >> ELSE InsertSpill(SortSpills(spills, k - 1), spills[k])

(***************************************************************************)
(* Lowering (the second loop of generate).  The lowering state is          *)
(* [code, tag, stack, register_count, free_registers, spills_end, panic]:  *)
(* stack holds for each slot the register it lives in, or None.  tag is    *)
(* not in the code: tag[i] tells whether code[i] translates a              *)
(* pre-instruction ("op") or belongs to a register load or store or to a   *)
(* spill sequence ("reg"), and marks notes each spill sequence.            *)
(***************************************************************************)
\* a faulty SWAP that reaches one slot deeper
Swap_deeper(depth) == <<"swap", depth + 1>>

Swap(depth) == <<"swap", depth>>

\* a faulty register_store that writes every register at address 0
register_store_zero(register) == << Push(WZero), Data("mstore") >>

\* register_store: PUSH(register * 32); MSTORE
register_store(register) == << Push(Word(register * WordBytes)), Data("mstore") >>

\* a faulty register_load that reads the next register
register_load_shifted(register) ==
    << Push(Word((register + 1) * WordBytes)), Data("mload") >>

\* register_load: PUSH(register * 32); MLOAD
register_load(register) == << Push(Word(register * WordBytes)), Data("mload") >>

NewLowering ==
    [code |-> << >>, tag |-> << >>, marks |-> << >>, stack |-> << >>,
     register_count |-> 0, free_registers |-> << >>, spills_end |-> 0, panic |-> ""]

\* code.push / code.extend
Emit(l, instrs, t) ==
    IF l.panic # "" THEN l
    ELSE [l EXCEPT !.code = l.code \o instrs,
                   !.tag = l.tag \o [i \in 1..Len(instrs) |-> t]]

\* a note of where the sequence of a spill begins in the code (the number
\* of instructions before it), its depth, register and direction
MarkSpill(l, spill, register) ==
    IF l.panic # "" THEN l
    ELSE [l EXCEPT !.marks = Append(l.marks,
                                    [start |-> Len(l.code), depth |-> spill.depth,
                                     register |-> register, outward |-> spill.outward])]

\* a faulty deep arm that emits nothing
LowerDeepRotate_nothing(l, from_index, top_index) == l

\* the deep arm of a lowered Rotate (from_depth >= 16): the value of the
\* register of the source slot comes to the top, the old top goes to that
\* register; a register of the old top is freed
LowerDeepRotate(l, from_index, top_index) ==
    LET from_register == l.stack[from_index + 1]
        top_register  == l.stack[top_index + 1]
        l1 == Emit(Emit(l, register_load(from_register), "reg"), <<Swap(1)>>, "reg")
        l2 == IF top_register # None
              THEN Emit(Emit(Emit(
                       [l1 EXCEPT !.stack[top_index + 1] = None,
                                  !.free_registers = Append(l1.free_registers, top_register)],
                       register_load(top_register), "reg"),
                       <<Swap(1)>>, "reg"),
                       register_store(top_register), "reg")
              ELSE l1
    IN  IF from_register = None THEN Fail(l, "called Option::unwrap() on a None value")
        ELSE Emit(l2, register_store(from_register), "reg")

\* a faulty Rotate arm without the guards from_depth > 0 and to_depth > 0
LowerRotate_unguarded(l, from_depth, to_depth) ==
    LET top_index  == Len(l.stack) - 1
        from_index == top_index - from_depth
        to_index   == top_index - to_depth
        l1 == IF from_depth < Window
              THEN [Emit(l, <<Swap(from_depth)>>, "op")
                       EXCEPT !.stack = SwapAt(l.stack, from_index, top_index)]
              ELSE LowerDeepRotate(l, from_index, top_index)
    IN  IF from_index < 0 \/ to_index < 0 THEN Fail(l, "index out of bounds")
        ELSE IF l1.panic # "" THEN l1
        ELSE [Emit(l1, <<Swap(to_depth)>>, "op")
                 EXCEPT !.stack = SwapAt(l1.stack, top_index, to_index)]

\* the arm Rotate { from_depth, to_depth } if from_depth != to_depth
LowerRotate(l, from_depth, to_depth) ==
    LET top_index  == Len(l.stack) - 1
        from_index == top_index - from_depth
        to_index   == top_index - to_depth
        l1 == IF from_depth < Window
              THEN IF from_depth > 0
                   THEN [Emit(l, <<Swap(from_depth)>>, "op")
                            EXCEPT !.stack = SwapAt(l.stack, from_index, top_index)]
                   ELSE l
              ELSE LowerDeepRotate(l, from_index, top_index)
    IN  IF from_index < 0 \/ to_index < 0 THEN Fail(l, "index out of bounds")
        ELSE IF l1.panic # "" THEN l1
        ELSE IF to_depth > 0
        THEN [Emit(l1, <<Swap(to_depth)>>, "op")
                 EXCEPT !.stack = SwapAt(l1.stack, top_index, to_index)]
        ELSE l1

\* the arm Dup(depth)
LowerDup(l, depth) ==
    LET index == Len(l.stack) - 1 - depth
        l1 == IF l.stack[index + 1] # None
              THEN Emit(l, register_load(l.stack[index + 1]), "reg")
              ELSE IF ~(depth < Window) THEN Fail(l, "assertion failed: depth < 16")
              ELSE Emit(l, <<Dup(depth)>>, "op")
    IN  IF index < 0 THEN Fail(l, "index out of bounds")
        ELSE IF l1.panic # "" THEN l1
        ELSE [l1 EXCEPT !.stack = Append(l1.stack, None)]

\* the arm Data(op)
LowerData(l, op) ==
    LET nargs == arity(op)[1]
        nress == arity(op)[2]
        base  == Len(l.stack) - nargs
        l1    == Emit(l, <<Data(op)>>, "op")
    IN  IF base < 0 THEN Fail(l1, "attempt to subtract with overflow")
        ELSE IF \E i \in (base + 1)..Len(l.stack) : l.stack[i] # None
        THEN Fail(l1, "assertion failed: item.is_none()")
        ELSE [l1 EXCEPT !.stack = SubSeq(l.stack, 1, base) \o [i \in 1..nress |-> None]]

\* the match on the pre-instruction
LowerInstr(l, instr) ==
    CASE instr[1] = "rot" /\ instr[2] # instr[3] -> LowerRotate(l, instr[2], instr[3])
      [] instr[1] = "rot" /\ instr[2] = instr[3] -> l
      [] instr[1] = "dup"  -> LowerDup(l, instr[2])
      [] instr[1] = "push" -> [Emit(l, <<instr>>, "op") EXCEPT !.stack = Append(l.stack, None)]
      [] instr[1] = "data" -> LowerData(l, instr[2])

\* a faulty spill sequence whose SWAP reaches one slot too deep
LowerSpill_deeper(l, spill) ==
    LET index == Len(l.stack) - 1 - spill.depth
        held  == l.stack[index + 1]
        nfree == Len(l.free_registers)
        l1 == IF spill.outward
              THEN IF nfree > 0
                   THEN [l EXCEPT !.stack[index + 1] = l.free_registers[nfree],
                                  !.free_registers = SubSeq(l.free_registers, 1, nfree - 1)]
                   ELSE [l EXCEPT !.stack[index + 1] = l.register_count,
                                  !.register_count = l.register_count + 1]
              ELSE [l EXCEPT !.stack[index + 1] = None,
                             !.free_registers = Append(l.free_registers, held)]
        register == IF spill.outward THEN l1.stack[index + 1] ELSE held
    IN  IF l.panic # "" THEN l
        ELSE IF index < 0 THEN Fail(l, "index out of bounds")
        ELSE Emit(Emit(Emit(MarkSpill(l1, spill, register), register_load(register), "reg"),
                       <<Swap(spill.depth + 2)>>, "reg"),
                  register_store(register), "reg")

\* a faulty spill round whose inward restore does not give the register
\* back to the free list
LowerSpill_leak(l, spill) ==
    LET index == Len(l.stack) - 1 - spill.depth
        held  == l.stack[index + 1]
        nfree == Len(l.free_registers)
        l1 == IF spill.outward
              THEN IF held # None THEN Fail(l, "assertion failed: stack[index].is_none()")
                   ELSE IF nfree > 0
                   THEN [l EXCEPT !.stack[index + 1] = l.free_registers[nfree],
                                  !.free_registers = SubSeq(l.free_registers, 1, nfree - 1)]
                   ELSE [l EXCEPT !.stack[index + 1] = l.register_count,
                                  !.register_count = l.register_count + 1]
              ELSE IF held = None THEN Fail(l, "called Option::unwrap() on a None value")
                   ELSE [l EXCEPT !.stack[index + 1] = None]
        register == IF spill.outward THEN l1.stack[index + 1] ELSE held
    IN  IF l.panic # "" THEN l
        ELSE IF index < 0 THEN Fail(l, "index out of bounds")
        ELSE IF l1.panic # "" THEN l1
        ELSE Emit(Emit(Emit(MarkSpill(l1, spill, register), register_load(register), "reg"),
                       <<Swap(spill.depth + 1)>>, "reg"),
                  register_store(register), "reg")

\* one round of the loop over instr_spills: the slot takes a register
\* (outward) or gives it back (inward), and the sequence
\* load(register), SWAP(depth + 1), store(register) is emitted
LowerSpill(l, spill) ==
    LET index == Len(l.stack) - 1 - spill.depth
        held  == l.stack[index + 1]
        nfree == Len(l.free_registers)
        l1 == IF spill.outward
              THEN IF held # None THEN Fail(l, "assertion failed: stack[index].is_none()")
                   ELSE IF nfree > 0
                   THEN [l EXCEPT !.stack[index + 1] = l.free_registers[nfree],
                                  !.free_registers = SubSeq(l.free_registers, 1, nfree - 1)]
                   ELSE [l EXCEPT !.stack[index + 1] = l.register_count,
                                  !.register_count = l.register_count + 1]
              ELSE IF held = None THEN Fail(l, "called Option::unwrap() on a None value")
                   ELSE [l EXCEPT !.stack[index + 1] = None,
                                  !.free_registers = Append(l.free_registers, held)]
        register == IF spill.outward THEN l1.stack[index + 1] ELSE held
    IN  IF l.panic # "" THEN l
        ELSE IF index < 0 THEN Fail(l, "index out of bounds")
        ELSE IF l1.panic # "" THEN l1
        ELSE Emit(Emit(Emit(MarkSpill(l1, spill, register), register_load(register), "reg"),
                       <<Swap(spill.depth + 1)>>, "reg"),
                  register_store(register), "reg")

\* the first index i >= from (from 0) of a spill for which the code index
\* is at least bound, or spills.len(): position(..).map_or(..)
RECURSIVE SpillPosition(_, _, _)
SpillPosition(spills, from, bound) ==
    IF from >= Len(spills) THEN Len(spills)
    ELSE IF spills[from + 1].code_index >= bound THEN from
    ELSE SpillPosition(spills, from + 1, bound)

RECURSIVE LowerSpills(_, _, _, _)
LowerSpills(l, spills, i, end) ==
    IF i >= end THEN l ELSE LowerSpills(LowerSpill(l, spills[i + 1]), spills, i + 1, end)

\* one round of the loop over machine.code: the spill window of the
\* instruction, its lowering, then its spills
LowerStep(l, spills, code_index, instr) ==
    LET spills_start == SpillPosition(spills, l.spills_end, code_index)
        spills_end   == SpillPosition(spills, spills_start, code_index + 1)
        l1 == LowerInstr([l EXCEPT !.spills_end = spills_end], instr)
    IN  LowerSpills(l1, spills, spills_start, spills_end)

(***************************************************************************)
(* The reference machine of the specification: a stack of words (the top   *)
(* is the last element) and a byte-addressed memory, a function from the   *)
(* addresses written so far to bytes (every other byte is 0).              *)
(***************************************************************************)
\* the bytes 1..k of word a plus one, as a number with k bytes (wraps)
RECURSIVE IncBytes(_, _)
IncBytes(a, k) ==
    IF k = 0 THEN << >>
    ELSE IF a[k] = ByteMod - 1 THEN Append(IncBytes(a, k - 1), 0)
    ELSE Append(SubSeq(a, 1, k - 1), a[k] + 1)

\* the addresses p, p + 1, .. p + 31 modulo 2^256
Addresses(p) ==
    LET hi  == SubSeq(p, 1, WordBytes - 1)
        hi1 == IncBytes(p, WordBytes - 1)
        lo  == p[WordBytes]
    IN  [j \in 1..WordBytes |->
            IF lo + j - 1 < ByteMod THEN Append(hi, lo + j - 1)
            ELSE Append(hi1, lo + j - 1 - ByteMod)]

ReadByte(mem, a) == IF a \in DOMAIN mem THEN mem[a] ELSE 0

\* MLOAD: the word at p .. p + 31
MLoad(mem, p) ==
    LET as == Addresses(p)
    IN  [j \in 1..WordBytes |-> ReadByte(mem, as[j])]

\* MSTORE: the bytes of x written at p .. p + 31
MStore(mem, p, x) ==
    LET as   == Addresses(p)
        news == {as[j] : j \in 1..WordBytes}
    IN  [a \in DOMAIN mem \cup news |->
            IF a \in news THEN x[CHOOSE j \in 1..WordBytes : as[j] = a] ELSE mem[a]]

\* what keeps the machine from executing instr on stack ("" if nothing)
Fault(instr, stack) ==
    CASE instr[1] = "push" -> ""
      [] instr[1] = "dup"  ->
           IF instr[2] < 0 \/ instr[2] > Window THEN "DUP outside the window"
           ELSE IF instr[2] >= Len(stack) THEN "DUP below the bottom of the stack"
           ELSE ""
      [] instr[1] = "swap" ->
           IF instr[2] < 1 \/ instr[2] > Window THEN "SWAP outside the window"
           ELSE IF instr[2] >= Len(stack) THEN "SWAP below the bottom of the stack"
           ELSE ""
      [] instr[1] = "data" ->
           IF Len(stack) < arity(instr[2])[1] THEN "stack underflow" ELSE ""

\* the stack after instr (DUP(d) copies the slot at depth d, SWAP(d)
\* exchanges the top and the slot at depth d)
ExecStack(instr, stack, mem) ==
    LET n == Len(stack)
    IN  CASE instr[1] = "push" -> Append(stack, instr[2])
          [] instr[1] = "dup"  -> Append(stack, stack[n - instr[2]])
          [] instr[1] = "swap" ->
               [stack EXCEPT ![n] = stack[n - instr[2]], ![n - instr[2]] = stack[n]]
          [] instr[1] = "data" /\ instr[2] = "pop"    -> SubSeq(stack, 1, n - 1)
          [] instr[1] = "data" /\ instr[2] = "mstore" -> SubSeq(stack, 1, n - 2)
          [] instr[1] = "data" /\ instr[2] = "mload"  ->
               Append(SubSeq(stack, 1, n - 1), MLoad(mem, stack[n]))
          [] instr[1] = "data" /\ instr[2] = "add"    ->
               Append(SubSeq(stack, 1, n - 2), WAdd(stack[n], stack[n - 1]))

\* the memory after instr: MSTORE takes the address from the top and the
\* value from below it
ExecMem(instr, stack, mem) ==
    IF instr[1] = "data" /\ instr[2] = "mstore"
    THEN MStore(mem, stack[Len(stack)], stack[Len(stack) - 1])
    ELSE mem

(***************************************************************************)
(* The block interpreted directly: [val, mem, popped] after the first k    *)
(* statements, where val maps each defined variable to its value, mstore   *)
(* p x writes x at p, mload p reads p, and popped lists the values of the  *)
(* variables removed by a pop statement or never read (dead results), in   *)
(* the order of the statements; operands lists, for each operator and each *)
(* pop of a dead result in that order, the operator and the values of its  *)
(* argument variables, the first argument first.                           *)
(***************************************************************************)
\* the values of the results ress of a statement that nothing reads
DeadValues(occ, ress, val) ==
    IF Len(ress) = 1 /\ occ[ress[1]] = 0 THEN <<val[ress[1]]>> ELSE << >>

\* the interpretation s after one more statement st
InterpretStatement(s, st, occ) ==
    LET a    == [j \in 1..Len(st.args) |-> s.val[st.args[j]]]
        val  == CASE st.kind = "const" -> MetaInsert(s.val, st.ress[1], st.c)
                  [] st.kind = "op" /\ st.op = "add" ->
                       MetaInsert(s.val, st.ress[1], WAdd(a[1], a[2]))
                  [] st.kind = "op" /\ st.op = "mload" ->
                       MetaInsert(s.val, st.ress[1], MLoad(s.mem, a[1]))
                  [] OTHER -> s.val
        mem  == IF st.kind = "op" /\ st.op = "mstore"
                THEN MStore(s.mem, a[1], a[2]) ELSE s.mem
        pops == IF st.kind = "op" /\ st.op = "pop" THEN <<a[1]>> ELSE << >>
        dead == DeadValues(occ, st.ress, val)
    IN  [val |-> val, mem |-> mem,
         popped |-> s.popped \o pops \o dead,
         operands |-> s.operands
                      \o (IF st.kind = "op" THEN <<[op |-> st.op, args |-> a]>> ELSE << >>)
                      \o [i \in 1..Len(dead) |-> [op |-> "pop", args |-> <<dead[i]>>]]]

\* the interpretation s after the statements i..j of b, by halves: the
\* comparison evaluates the first half before the second is entered
RECURSIVE InterpretRange(_, _, _, _, _)
InterpretRange(s, b, occ, i, j) ==
    IF i > j THEN s
    ELSE IF i = j THEN InterpretStatement(s, b[i], occ)
    ELSE LET m    == (i + j) \div 2
             left == InterpretRange(s, b, occ, i, m)
         IN  IF left = s THEN InterpretRange(s, b, occ, m + 1, j)
             ELSE InterpretRange(left, b, occ, m + 1, j)

Interpret(b, k) ==
    InterpretRange([val |-> << >>, mem |-> << >>, popped |-> << >>, operands |-> << >>],
                   b, count_occurrences(b), 1, k)

(***************************************************************************)
(* The state of one run of generate on block, followed by the run of the   *)
(* emitted stream.                                                         *)
(*   ast       the parsed block main hands to resolve                      *)
(*   block, var_count  the ResolvedBlock (empty before resolve has run)    *)
(*   pc        where the run is: "resolve", "stmt", "args", "apply",       *)
(*             "sweep_pop" (scheduler loop), "lower", "run", "done";       *)
(*             "unresolved" after an error of resolve, "error" after a     *)
(*             failed ensure!, "panic" after a failed assertion            *)
(*   err       the message of the error or panic                           *)
(*   occurs    the remaining-use counts                                    *)
(*   si, ai, ri  the statement (from 1), the number of argument positions  *)
(*             and of results still to be visited                          *)
(*   ndups, dups  the running dup counter and the dup flags                *)
(*   machine   the abstract stack machine                                  *)
(*   max_depth the largest length the abstract stack has had               *)
(*   plan_index, plan  the number of pre-instructions planned, and the     *)
(*             planner state                                               *)
(*   spills    the sorted list make_spills returns                         *)
(*   code_index, lower  the number of pre-instructions lowered, and the    *)
(*             lowering state                                              *)
(*   ip, vstack, vmem, vpopped  the reference machine running lower.code:  *)
(*             the instructions executed, the stack, the memory and the    *)
(*             values removed by POP so far ("fault" if it cannot go on)   *)
(***************************************************************************)
VARIABLES ast, var_count, block, pc, err, occurs, si, ai, ri, ndups, dups, machine,
          max_depth, plan_index, plan, spills, code_index, lower, ip, vstack, vmem,
          vpopped

planVars == <<plan_index, plan>>

lowerVars == <<spills, code_index, lower>>

vmVars == <<ip, vstack, vmem, vpopped>>

schedVars == <<occurs, si, ai, ri, ndups, dups, machine, max_depth>>

Max(a, b) == IF a >= b THEN a ELSE b

\* the remaining-use counts after visiting args[1..j] (occurs[a] -= 1 each)
RECURSIVE Decremented(_, _, _)
Decremented(occ, args, j) ==
    IF j = 0 THEN occ
    ELSE LET o == Decremented(occ, args, j - 1)
         IN  [o EXCEPT ![args[j]] = o[args[j]] - 1]

\* the dup flags of generate: position j is duplicated when its variable
\* still has a remaining use after the decrement at position j
DupFlags(occ, args) ==
    [j \in 1..Len(args) |-> Decremented(occ, args, j)[args[j]] > 0]

\* a faulty count that is one too many
CountTrue_more(flags) == Cardinality({j \in 1..Len(flags) : flags[j]}) + 1

CountTrue(flags) == Cardinality({j \in 1..Len(flags) : flags[j]})

\* a faulty sweep that finds no dead result
NextDead_none(occ, ress, r) == 0

\* the largest i <= r such that result ress[i] is dead (0 if none): the
\* next result the dead-result sweep removes, going through ress in reverse
RECURSIVE NextDead(_, _, _)
NextDead(occ, ress, r) ==
    IF r = 0 THEN 0
    ELSE IF occ[ress[r]] = 0 THEN r
    ELSE NextDead(occ, ress, r - 1)

\* a faulty check that accepts a const statement with any number of results
StatementError_ops(st) ==
    IF st.kind = "const" THEN ""
    ELSE IF st.op \notin OpNames THEN "Unknown operator: " \o st.op
    ELSE IF Len(st.args) # arity(st.op)[1] THEN "Wrong number of arguments"
    ELSE IF Len(st.ress) # arity(st.op)[2] THEN "Wrong number of results"
    ELSE ""

\* the checks generate makes on a statement before scheduling it: the
\* ensure! of the Const arm, and op.parse()? and the two ensure! of the Op
\* arm in their order; the message of the error returned, "" if none
StatementError(st) ==
    IF st.kind = "const"
    THEN IF Len(st.ress) # 1 THEN "Wrong number of results" ELSE ""
    ELSE IF st.op \notin OpNames THEN "Unknown operator: " \o st.op
    ELSE IF Len(st.args) # arity(st.op)[1] THEN "Wrong number of arguments"
    ELSE IF Len(st.ress) # arity(st.op)[2] THEN "Wrong number of results"
    ELSE ""

\* the scheduler after a machine operation: a panic stops generate
Stepped(m, next_pc) ==
    /\ machine' = m
    /\ max_depth' = Max(max_depth, Len(m.stack))
    /\ pc' = IF m.panic # "" THEN "panic" ELSE next_pc
    /\ err' = m.panic

\* the sweep of the results ress[1..r] of statement si: rotate the next
\* dead result to the top ("sweep_pop" pops it), or go to the next statement
Sweep(m, occ, ress, r) ==
    LET d == NextDead(occ, ress, r)
    IN  IF d = 0
        THEN /\ Stepped(m, "stmt")
             /\ si' = si + 1
             /\ ri' = 0
        ELSE /\ Stepped(rotate_to(m, ress[d], 0), "sweep_pop")
             /\ si' = si
             /\ ri' = d

\* main: scope::resolve(ast), whose error ends the run, and the entry of
\* generate, which counts the occurrences with the var_count of the result
Resolve ==
    /\ pc = "resolve"
    /\ LET r == resolve(ast)
       IN  IF r.err # ""
           THEN /\ pc' = "unresolved"
                /\ err' = r.err
                /\ UNCHANGED <<var_count, block, occurs>>
           ELSE /\ pc' = "stmt"
                /\ block' = r.block
                /\ var_count' = r.var_count
                /\ occurs' = count_occurrences(r.block)
                /\ err' = err
    /\ UNCHANGED <<ast, si, ai, ri, ndups, dups, machine, max_depth,
                   planVars, lowerVars, vmVars>>

\* Expression::Const: ensure!(ress.len() == 1), machine.push, then the sweep
SchedConst ==
    /\ pc = "stmt"
    /\ si <= Len(block)
    /\ block[si].kind = "const"
    /\ IF StatementError(block[si]) # ""
       THEN /\ pc' = "error"
            /\ err' = StatementError(block[si])
            /\ UNCHANGED schedVars
       ELSE /\ Sweep(push(machine, block[si].ress[1], block[si].c),
                     occurs, block[si].ress, 1)
            /\ UNCHANGED <<occurs, ai, ndups, dups>>
    /\ UNCHANGED <<ast, var_count, block, planVars, lowerVars, vmVars>>

\* Expression::Op up to the dup flags: op.parse()?, the two ensure!, and
\* the map that decrements occurs and counts ndups
SchedOp ==
    /\ pc = "stmt"
    /\ si <= Len(block)
    /\ block[si].kind = "op"
    /\ LET st == block[si]
       IN  IF StatementError(st) # ""
           THEN /\ pc' = "error"
                /\ err' = StatementError(st)
                /\ UNCHANGED schedVars
           ELSE IF \E j \in 1..Len(st.args) : Decremented(occurs, st.args, j)[st.args[j]] < 0
           THEN /\ pc' = "panic"
                /\ err' = "attempt to subtract with overflow"
                /\ UNCHANGED schedVars
           ELSE /\ occurs' = Decremented(occurs, st.args, Len(st.args))
                /\ dups' = DupFlags(occurs, st.args)
                /\ ndups' = CountTrue(DupFlags(occurs, st.args))
                /\ ai' = Len(st.args)
                /\ pc' = IF Len(st.args) = 0 THEN "apply" ELSE "args"
                /\ UNCHANGED <<err, si, ri, machine, max_depth>>
    /\ UNCHANGED <<ast, var_count, block, planVars, lowerVars, vmVars>>

\* one round of the loop over the argument positions in reverse: position
\* i = ai - 1 is copied or rotated to depth i - ndups
SchedArg ==
    /\ pc = "args"
    /\ LET i        == ai - 1
           arg      == block[si].args[ai]
           dup      == dups[ai]
           nd       == IF dup THEN ndups - 1 ELSE ndups
           to_depth == i - nd
       IN  /\ ndups' = nd
           /\ ai' = i
           /\ IF to_depth < 0
              THEN Stepped(Fail(machine, "attempt to subtract with overflow"), "args")
              ELSE IF dup
              THEN Stepped(copy_to(machine, arg, to_depth), IF i = 0 THEN "apply" ELSE "args")
              ELSE Stepped(rotate_to(machine, arg, to_depth), IF i = 0 THEN "apply" ELSE "args")
    /\ UNCHANGED <<ast, var_count, block, occurs, si, ri, dups, planVars, lowerVars, vmVars>>

\* machine.apply(op, ress), then the sweep of the results
SchedApply ==
    /\ pc = "apply"
    /\ Sweep(apply(machine, block[si].op, block[si].ress),
             occurs, block[si].ress, Len(block[si].ress))
    /\ UNCHANGED <<ast, var_count, block, occurs, ai, ndups, dups, planVars, lowerVars, vmVars>>

\* machine.pop() of the dead result rotated to the top, then the rest of
\* the sweep
SchedSweepPop ==
    /\ pc = "sweep_pop"
    /\ Sweep(pop(machine), occurs, block[si].ress, ri - 1)
    /\ UNCHANGED <<ast, var_count, block, occurs, ai, ndups, dups, planVars, lowerVars, vmVars>>

\* where generate is after k of the pre-instructions are lowered, and the
\* reference machine after n of the instructions are executed
AfterLowering(k, ncode) == IF k < Len(machine.code) THEN "lower" ELSE
                           IF ncode = 0 THEN "done" ELSE "run"

\* after the last statement generate calls make_spills
SchedEnd ==
    /\ pc = "stmt"
    /\ si > Len(block)
    /\ pc' = "plan"
    /\ UNCHANGED <<ast, var_count, block, err, schedVars, planVars, lowerVars, vmVars>>

\* one round of the loop of make_spills
PlanStep ==
    /\ pc = "plan"
    /\ plan_index < Len(machine.code)
    /\ LET state == PlanInstr(plan, plan_index, machine.code[plan_index + 1])
       IN  /\ plan' = state
           /\ pc' = IF state.panic # "" THEN "panic" ELSE "plan"
           /\ err' = state.panic
    /\ plan_index' = plan_index + 1
    /\ UNCHANGED <<ast, var_count, block, schedVars, lowerVars, vmVars>>

\* the end of make_spills: the records sorted by code index
PlanSort ==
    /\ pc = "plan"
    /\ plan_index = Len(machine.code)
    /\ spills' = SortSpills(plan.spills, Len(plan.spills))
    /\ pc' = AfterLowering(0, 0)
    /\ UNCHANGED <<ast, var_count, block, err, schedVars, planVars, code_index, lower, vmVars>>

\* one round of the lowering loop; after the last one generate returns
\* the code
Lower ==
    /\ pc = "lower"
    /\ LET l == LowerStep(lower, spills, code_index, machine.code[code_index + 1])
       IN  /\ lower' = l
           /\ code_index' = code_index + 1
           /\ pc' = IF l.panic # "" THEN "panic"
                    ELSE AfterLowering(code_index + 1, Len(l.code))
           /\ err' = l.panic
    /\ UNCHANGED <<ast, var_count, block, schedVars, planVars, spills, vmVars>>

\* the reference machine executes the next instruction of the code
Run ==
    /\ pc = "run"
    /\ LET instr == lower.code[ip + 1]
           fault == Fault(instr, vstack)
       IN  IF fault # ""
           THEN /\ pc' = "fault"
                /\ err' = fault
                /\ UNCHANGED vmVars
           ELSE /\ vstack' = ExecStack(instr, vstack, vmem)
                /\ vmem' = ExecMem(instr, vstack, vmem)
                /\ vpopped' = IF instr = Data("pop")
                              THEN Append(vpopped, vstack[Len(vstack)]) ELSE vpopped
                /\ ip' = ip + 1
                /\ pc' = IF ip + 1 < Len(lower.code) THEN "run" ELSE "done"
                /\ err' = err
    /\ UNCHANGED <<ast, var_count, block, schedVars, planVars, lowerVars>>

Init ==
    /\ ast \in Sources
    /\ var_count = 0
    /\ block = << >>
    /\ pc = "resolve"
    /\ err = ""
    /\ occurs = << >>
    /\ si = 1
    /\ ai = 0
    /\ ri = 0
    /\ ndups = 0
    /\ dups = << >>
    /\ machine = NewMachine
    /\ max_depth = 0
    /\ plan_index = 0
    /\ plan = NewPlan
    /\ spills = << >>
    /\ code_index = 0
    /\ lower = NewLowering
    /\ ip = 0
    /\ vstack = << >>
    /\ vmem = << >>
    /\ vpopped = << >>

vars == <<ast, var_count, block, pc, err, occurs, si, ai, ri, ndups, dups, machine,
          max_depth, plan_index, plan, spills, code_index, lower, ip, vstack, vmem,
          vpopped>>

Next ==
    \/ Resolve
    \/ SchedConst
    \/ SchedOp
    \/ SchedArg
    \/ SchedApply
    \/ SchedSweepPop
    \/ SchedEnd
    \/ PlanStep
    \/ PlanSort
    \/ Lower
    \/ Run

Spec == Init /\ [][Next]_vars


(***************************************************************************)
(* Properties of generate and of the stream it returns.                    *)
(***************************************************************************)
\* an instruction of the returned stream with tag t that satisfies the test
InstrAt(i, t, kind) ==
    /\ i \in 1..Len(lower.code)
    /\ lower.tag[i] = t
    /\ lower.code[i][1] = kind

\* C1: the stream generate returns runs to its end on the reference
\* machine: no instruction finds fewer operands than its arity, no DUP or
\* SWAP addresses a slot outside the window or below the bottom of the
\* stack, and the machine stops only after the last instruction.
C1_StreamRuns ==
    /\ pc # "fault"
    /\ pc = "run" => /\ ip < Len(lower.code)
                     /\ Fault(lower.code[ip + 1], vstack) = ""
    /\ pc = "done" => ip = Len(lower.code)

\* C1: a stream with spill sequences, DUPs, SWAPs and data operators has
\* been executed to its end
C1_Witness ==
    /\ pc = "done"
    /\ ip = Len(lower.code)
    /\ lower.register_count > 0
    /\ \E i, j, k \in 1..Len(lower.code) :
          /\ lower.code[i][1] = "dup"
          /\ lower.code[j][1] = "swap"
          /\ lower.code[k] = Data("add")

\* C2: every DUP of the stream has a depth in 0..16 and every SWAP a depth
\* in 1..16, whether it lowers a rotate or belongs to a deep rotate or a
\* spill sequence; SWAP(0) is never emitted.
C2_DepthsInWindow ==
    \A i \in 1..Len(lower.code) :
        /\ lower.code[i][1] = "dup"  => lower.code[i][2] \in 0..Window
        /\ lower.code[i][1] = "swap" => lower.code[i][2] \in 1..Window

\* C2: a finished stream holds the SWAP of an ordinary rotate from the edge
\* of the window, the SWAP of a spill sequence and a DUP
C2_Witness ==
    /\ pc = "done"
    /\ Len(spills) > 0
    /\ \E i, j, k \in 1..Len(lower.code) :
          /\ InstrAt(i, "op", "swap") /\ lower.code[i][2] = Window - 1
          /\ InstrAt(j, "reg", "swap")
          /\ InstrAt(k, "op", "dup")


\* the entry of the abstract stack at depth d (0 is the top)
AtDepth(d) == machine.stack[Len(machine.stack) - d]

\* C3 (as stated): when apply is called, depth i holds Copy(args[i]) if
\* args[i] has a remaining use after the statement and Main(args[i]) if not.
C3_CopyIffUsedLater ==
    pc = "apply" =>
        \A i \in 1..Len(block[si].args) :
            AtDepth(i - 1) = IF occurs[block[si].args[i]] > 0
                             THEN Copy(block[si].args[i])
                             ELSE Main(block[si].args[i])

\* C3 (amended): when apply is called, depth i holds an instance of
\* args[i]: Copy(args[i]) if the dup flag of position i is set, that is if
\* the variable has a remaining use after the decrement for position i (a
\* later position of the same statement counts), and Main(args[i]) if not.
C3_CopyIffDupFlag ==
    pc = "apply" =>
        /\ Len(dups) = Len(block[si].args)
        /\ Len(machine.stack) >= Len(block[si].args)
        /\ \A i \in 1..Len(block[si].args) :
              AtDepth(i - 1) = IF dups[i]
                               THEN Copy(block[si].args[i])
                               ELSE Main(block[si].args[i])

\* C3: apply is about to be called for a two-argument operator whose
\* first argument is moved and whose second is copied, on a stack deeper
\* than the window
C3_Witness ==
    /\ pc = "apply"
    /\ Len(block[si].args) = 2
    /\ block[si].args[1] # block[si].args[2]
    /\ ~dups[1] /\ dups[2]
    /\ Len(machine.stack) > Window


\* the input uses only const and add
ConstAddOnly(b) == \A i \in 1..Len(b) : b[i].kind = "const" \/ b[i].op = "add"

\* the multiset of the elements of a sequence
BagOf(seq) ==
    [x \in {seq[i] : i \in 1..Len(seq)} |-> Cardinality({i \in 1..Len(seq) : seq[i] = x})]

\* the values of the variables of b that no statement of b reads or pops,
\* in the order of their definitions
Unconsumed(b) ==
    LET occ       == count_occurrences(b)
        val       == Interpret(b, Len(b)).val
        IsLive(v) == occ[v] = 0
        live      == SelectSeq([i \in 1..VarCount(b) |-> i - 1], IsLive)
    IN  [i \in 1..Len(live) |-> val[live[i]]]

\* C4 (as stated): for an input of const and add only, the final stack of
\* the reference machine holds, as a multiset, the values modulo 2^256 of
\* the result variables the IR never pops (those no statement consumes).
C4_StackHoldsResults ==
    pc = "done" /\ ConstAddOnly(block) => BagOf(vstack) = BagOf(Unconsumed(block))

\* C4 (amended): for an input of const and add only, the final stack is
\* empty: the dead-result sweep pops each variable no statement reads as
\* soon as it is produced, and the values the machine pops are the values
\* modulo 2^256 of those variables, in the order of their definitions.
C4_ResultsArePopped ==
    pc = "done" /\ ConstAddOnly(block) =>
        /\ vstack = << >>
        /\ vpopped = Unconsumed(block)
        /\ vpopped = Interpret(block, Len(block)).popped

\* C4: the run of the sum of 17 constants has ended: its first operand came
\* from beyond the window through a register, and the sum 260 + 2^256 - 1
\* wrapped around to 259
C4_Witness ==
    /\ pc = "done"
    /\ block = SumBlock
    /\ ConstAddOnly(block)
    /\ lower.register_count > 0
    /\ Interpret(block, Len(block)).val[2 * Window - 1] = Word(260)
    /\ vpopped = <<Word(259)>>

\* address a lies in the register region [0, register_count * 32)
InRegisterRegion(a) ==
    /\ \A j \in 1..(WordBytes - 2) : a[j] = 0
    /\ a[WordBytes - 1] * ByteMod + a[WordBytes] < lower.register_count * WordBytes

\* C5: after the run, the memory of the reference machine agrees with the
\* memory of the directly interpreted block at every address outside the
\* register region, also when user addresses fall inside or overlap it.
C5_MemoryAgrees ==
    pc = "done" =>
        LET imem == Interpret(block, Len(block)).mem
        IN  \A a \in DOMAIN vmem \cup DOMAIN imem :
                ~InRegisterRegion(a) => ReadByte(vmem, a) = ReadByte(imem, a)


\* the number of outward records among the planned spills
OutwardSpills == Cardinality({i \in 1..Len(spills) : spills[i].outward})

\* C6 (as stated): the number of registers minted is at most the maximum
\* abstract stack depth minus 16 plus 1, for every input.
C6_AtMostDepthMinus15 ==
    pc = "done" => lower.register_count <= max_depth - Window + 1

\* C6 (amended): no register is minted unless the abstract stack has been
\* deeper than 16, and the number of registers minted never exceeds the
\* number of outward spills planned nor the maximum abstract stack depth;
\* it can exceed the maximum depth minus 15.
C6_RegisterBound ==
    /\ max_depth <= Window => lower.register_count = 0 /\ spills = << >>
    /\ lower.register_count <= OutwardSpills
    /\ lower.register_count <= max_depth

\* C6: lowering has ended with three registers minted for an input whose
\* abstract stack was never deeper than 17, the outward spills being placed
\* at the pushes of the spilled constants
C6_Witness ==
    /\ pc = "done"
    /\ block = RetroBlock
    /\ max_depth = Window + 1
    /\ lower.register_count = 3
    /\ \E i \in 1..Len(spills) : spills[i].outward /\ spills[i].code_index = 0


\* the top of the stack of the reference machine
Top(stack) == stack[Len(stack)]

\* generate has failed: an ensure! returned an error or an assertion panicked
Failed == pc \in {"error", "panic"}

\* C7: for S3, let a = const 3; let b = add a a, generate completes, the
\* stream holds a DUP, and its run ends with b = 6 on top of the stack.
C7_S3Completes ==
    block = S3Block =>
        /\ ~Failed
        /\ pc = "done" => /\ \E i \in 1..Len(lower.code) : lower.code[i][1] = "dup"
                          /\ vstack # << >>
                          /\ Top(vstack) = Word(6)

\* C8 (as stated): for S1 the run of the stream ends with y on top of the
\* stack, with value 0.
C8_S1EndsWithY ==
    block = S1Block /\ pc = "done" => vstack # << >> /\ Top(vstack) = WZero

\* C8 (amended): for S1 generate completes and the stream ends with MLOAD,
\* POP: the MLOAD leaves y = 0 alone on the stack, and y, which nothing
\* reads, is popped at once, so that the run ends with an empty stack.
C8_S1PopsY ==
    block = S1Block =>
        /\ ~Failed /\ pc # "fault"
        /\ pc \in {"run", "done"} =>
              /\ Len(lower.code) >= 2
              /\ lower.code[Len(lower.code) - 1] = Data("mload")
              /\ lower.code[Len(lower.code)] = Data("pop")
        /\ pc = "run" /\ ip = Len(lower.code) - 1 => vstack = <<WZero>>
        /\ pc = "done" => vstack = << >> /\ vpopped = <<WZero>>

\* C8: the run of the stream of S1 has ended, having popped y = 0 read from
\* the address where x was stored
C8_Witness ==
    /\ block = S1Block
    /\ pc = "done"
    /\ vpopped = <<WZero>>
    /\ \A a \in DOMAIN vmem : vmem[a] = 0
    /\ Word(1) \in DOMAIN vmem

\* C9: for S4, the input of main.rs (17 constants, then mload of the
\* first-defined), the first-defined variable is at depth 16 when the
\* arguments of the mload are placed and on top when apply is called; the
\* stream holds a register MSTORE and a register MLOAD after it; and when
\* the MLOAD of the operator executes, the value 10 of the first-defined
\* variable is on top of the stack.
C9_S4Legalized ==
    block = MainBlock =>
        /\ ~Failed /\ pc # "fault"
        /\ pc = "args" /\ si = Window + 2 => find(machine, 0) = Window
        /\ pc = "apply" /\ si = Window + 2 => AtDepth(0) = Main(0)
        /\ pc \in {"run", "done"} =>
              \E i, j \in 1..Len(lower.code) :
                  /\ i < j
                  /\ InstrAt(i, "reg", "data") /\ lower.code[i] = Data("mstore")
                  /\ InstrAt(j, "reg", "data") /\ lower.code[j] = Data("mload")
        /\ pc = "run" /\ InstrAt(ip + 1, "op", "data") /\ lower.code[ip + 1] = Data("mload")
              => vstack # << >> /\ Top(vstack) = Word(10)

\* C9: the MLOAD of the operator of S4 is about to execute with 10 on top,
\* after a register MSTORE and a register MLOAD have executed
C9_Witness ==
    /\ block = MainBlock
    /\ pc = "run"
    /\ InstrAt(ip + 1, "op", "data") /\ lower.code[ip + 1] = Data("mload")
    /\ Top(vstack) = Word(10)
    /\ \E i, j \in 1..ip :
          /\ i < j
          /\ InstrAt(i, "reg", "data") /\ lower.code[i] = Data("mstore")
          /\ InstrAt(j, "reg", "data") /\ lower.code[j] = Data("mload")

\* the values S5 pops: p00 = 10, then p16 = 26 down to p01 = 11
S5Popped == <<Word(10)>> \o [i \in 1..Window |-> Word(27 - i)]

\* C10: for S5 (17 constants, pop of the first-defined, pops of the rest)
\* generate completes without a failed assertion; the pop of the
\* first-defined is a rotate from depth 16 to depth 0, legalized by an
\* outward and an inward spill and register stores and loads; the values
\* popped are those of the variables the pops name, in order; and the
\* stack of the reference machine is empty at the end.
C10_S5Legalized ==
    block = S5Block =>
        /\ ~Failed /\ pc # "fault"
        /\ Len(machine.code) >= Window + 2 => machine.code[Window + 2] = Rotate(Window, 0)
        /\ pc \in {"lower", "run", "done"} =>
              /\ \E i \in 1..Len(spills) : spills[i].outward
              /\ \E i \in 1..Len(spills) : ~spills[i].outward
        /\ pc \in {"run", "done"} =>
              \E i, j \in 1..Len(lower.code) :
                  /\ InstrAt(i, "reg", "data") /\ lower.code[i] = Data("mstore")
                  /\ InstrAt(j, "reg", "data") /\ lower.code[j] = Data("mload")
        /\ pc = "done" =>
              /\ vstack = << >>
              /\ vpopped = S5Popped
              /\ vpopped = Interpret(block, Len(block)).popped

\* C10: the run of the stream of S5 has ended with an empty stack after 17
\* pops, the first of the value 10 brought back from a register
C10_Witness ==
    /\ block = S5Block
    /\ pc = "done"
    /\ vstack = << >>
    /\ Len(vpopped) = Window + 1
    /\ vpopped[1] = Word(10)
    /\ lower.register_count = 1

\* a statement the checks of generate reject: a const without exactly one
\* result, an operator that is none of pop, mstore, mload, add, or one
\* whose argument or result count differs from its arity
Malformed(st) ==
    IF st.kind = "const" THEN Len(st.ress) # 1
    ELSE \/ st.op \notin {"pop", "mstore", "mload", "add"}
         \/ Len(st.args) # arity(st.op)[1]
         \/ Len(st.ress) # arity(st.op)[2]

\* the first malformed statement of the block in source order, 0 if none
FirstMalformed(b) ==
    IF \E i \in 1..Len(b) : Malformed(b[i])
    THEN CHOOSE i \in 1..Len(b) : Malformed(b[i]) /\ \A j \in 1..(i - 1) : ~Malformed(b[j])
    ELSE 0

\* the part of the error handling that holds in every run: generate
\* returns an error only at the first malformed statement, with its
\* message and without an instruction, and whenever the scheduler reaches
\* that statement it returns the error; a run may panic before reaching it
ErrorAtReachedMalformed ==
    [][LET f == FirstMalformed(block)
       IN  /\ pc' = "error" =>
                 /\ f # 0 /\ si' = f /\ pc = "stmt" /\ si = f
                 /\ err' # ""
                 /\ lower'.code = << >>
           /\ f # 0 =>
                 /\ si' <= f
                 /\ pc' \in {"stmt", "args", "apply", "sweep_pop", "error", "panic"}
                 /\ pc = "stmt" /\ si = f =>
                       pc' = "error" /\ err' = StatementError(block[f])]_vars

\* C11: generate returns an error value carrying a message, without a
\* panic and without an instruction, whenever the block has a statement
\* that is a const without exactly one result, an operator with a wrong
\* argument or result count, or an unknown operator; compilation stops at
\* the first such statement in source order.  In a block with such a
\* statement the scheduler therefore never panics, never goes past the
\* first such statement, and returns the error with a message when it
\* reaches it.
C11_ErrorWhenMalformed ==
    [][LET f == FirstMalformed(block)
       IN  f # 0 =>
               /\ si' <= f
               /\ pc' \in {"stmt", "args", "apply", "sweep_pop", "error"}
               /\ pc' = "error" => err' # "" /\ lower'.code = << >>
               /\ pc = "stmt" /\ si = f =>
                     pc' = "error" /\ err' = StatementError(block[f])]_vars

\* generate has returned "Wrong number of arguments" at the third
\* statement of a block whose fourth has an unknown operator, after it
\* scheduled the two constants
C11_Witness ==
    /\ pc = "error"
    /\ FirstMalformed(block) = 3
    /\ Malformed(block[4])
    /\ si = 3
    /\ err = "Wrong number of arguments"
    /\ Len(machine.code) = 2
    /\ lower.code = << >>

\* the scheduler is at work on the abstract stack
Scheduling == pc \in {"stmt", "args", "apply", "sweep_pop"}

\* the number of entries of the abstract stack equal to instance
Entries(instance) ==
    Cardinality({i \in 1..Len(machine.stack) : machine.stack[i] = instance})

\* the variables defined so far: the results of the statements before si
\* and, once statement si is applied, its own
DefinedVars ==
    LET n == IF si > Len(block) THEN VarCount(block)
             ELSE SumLen(block, si - 1)
                  + (IF pc = "sweep_pop" THEN Len(block[si].ress) ELSE 0)
    IN  0..(n - 1)

\* C12: in every state of the scheduler, every variable with remaining
\* uses has exactly one Main entry on the abstract stack and no variable
\* has more than one Copy entry, also when one operator reads the same
\* variable in several argument positions.
C12_Uniqueness ==
    Scheduling =>
        \A v \in DefinedVars :
            /\ occurs[v] > 0 => Entries(Main(v)) = 1
            /\ Entries(Copy(v)) <= 1

\* the variables defined so far that still have uses
LiveVars == {v \in DefinedVars : occurs[v] > 0}

\* C13: when the scheduler has finished a statement and its dead-result
\* sweep, the abstract stack holds exactly one Main entry for each defined
\* variable with remaining uses and nothing else (no Copy, no entry of a
\* variable without uses), and the keys of the meta map are those
\* variables; after the last statement the abstract stack is empty when
\* every remaining-use count is 0.
C13_TightAfterStatement ==
    /\ pc = "stmt" =>
          /\ \A v \in LiveVars : Entries(Main(v)) = 1
          /\ \A i \in 1..Len(machine.stack) :
                 /\ machine.stack[i][1] = "Main"
                 /\ machine.stack[i][2] \in LiveVars
          /\ Len(machine.stack) = Cardinality(LiveVars)
          /\ DOMAIN machine.meta = LiveVars
    /\ (/\ pc \in {"stmt", "plan", "lower", "run", "done"}
        /\ si > Len(block)
        /\ \A v \in DOMAIN occurs : occurs[v] = 0)
       => machine.stack = << >> /\ DOMAIN machine.meta = {}

\* after "let c = add a b" with a and b read again later: both arguments
\* were copied, the unread c was swept, and the stack holds Main(a), Main(b)
C13_Witness ==
    /\ pc = "stmt"
    /\ si = 4
    /\ block[3].kind = "op" /\ block[3].op = "add" /\ block[3].ress = <<2>>
    /\ occurs[0] = 1 /\ occurs[1] = 1 /\ occurs[2] = 0
    /\ machine.stack = <<Main(0), Main(1)>>
    /\ \E i \in 1..Len(machine.code) : machine.code[i][1] = "dup"
    /\ machine.code[Len(machine.code)] = Data("pop")

\* C14: on every stream the scheduler produces, make_spills and the
\* lowering loop reach no fatal state: none of the panics of the planner
\* (unspillable accessed too deep, restored back too deep, already
\* restored?, spilled value not restored, the Rotate assertions) and none
\* of the assertions and unwraps of lowering (a data operator consuming a
\* register slot, an outward spill on a register slot, an inward restore
\* or deep rotate on a slot without register, a Dup beyond the window)
\* fails; a panic of generate is one of the scheduler.
C14_NoFatalState ==
    /\ plan.panic = ""
    /\ lower.panic = ""
    /\ pc = "panic" => machine.panic # "" /\ plan_index = 0 /\ code_index = 0

\* planning and lowering have ended for a stream that copies a value from
\* depth 16, rotates it up from depth 16 later, and has outward and inward
\* spill records
C14_Witness ==
    /\ pc = "done"
    /\ plan_index = Len(machine.code)
    /\ code_index = Len(machine.code)
    /\ \E i, j \in 1..Len(machine.code) :
           /\ i < j
           /\ machine.code[i] = Dup(Window)
           /\ machine.code[j] = Rotate(Window, 0)
    /\ \E i, j \in 1..Len(spills) : spills[i].outward /\ ~spills[j].outward

\* the word at address a would wrap around the end of memory
WrapsAround(a) ==
    /\ \A j \in 1..(WordBytes - 1) : a[j] = ByteMod - 1
    /\ a[WordBytes] > ByteMod - WordBytes

\* no mstore or mload of the block, interpreted directly, touches the
\* register region
UserMemoryApart ==
    LET ops == Interpret(block, Len(block)).operands
    IN  \A k \in 1..Len(ops) :
            ops[k].op \in {"mstore", "mload"} =>
                \/ lower.register_count = 0
                \/ ~InRegisterRegion(ops[k].args[1]) /\ ~WrapsAround(ops[k].args[1])

\* the number of data operators of the statements among the first n
\* instructions of the stream
UserOpsBefore(n) == Cardinality({j \in 1..n : InstrAt(j, "op", "data")})

\* C15: in the run of the lowered code, user memory accesses being outside
\* the register region, each data operator pops the values of its IR
\* argument variables, argument i at depth i: a value that went through
\* a register (outward spill, hand-off by a deep rotate, register reuse)
\* comes back as it was saved.
C15_OperandsAreArguments ==
    (/\ pc = "run"
     /\ InstrAt(ip + 1, "op", "data")
     /\ UserMemoryApart)
    => LET ops == Interpret(block, Len(block)).operands
           k   == UserOpsBefore(ip) + 1
       IN  /\ k <= Len(ops)
           /\ ops[k].op = lower.code[ip + 1][2]
           /\ Len(vstack) >= Len(ops[k].args)
           /\ \A i \in 1..Len(ops[k].args) :
                  vstack[Len(vstack) - (i - 1)] = ops[k].args[i]

\* the machine is about to pop p14 = 24 in the run of the 22-constant
\* block with three registers: its value went out at its push and came
\* back from beyond the window through a register
C15_Witness ==
    /\ pc = "run"
    /\ block = RetroBlock
    /\ lower.register_count = 3
    /\ InstrAt(ip + 1, "op", "data")
    /\ lower.code[ip + 1] = Data("pop")
    /\ Top(vstack) = Word(24)
    /\ UserMemoryApart

\* the reference machine after the instructions instrs[i..] from the
\* stack and memory of s; fault is set if one of them cannot execute
RECURSIVE RunSeq(_, _, _)
RunSeq(instrs, i, s) ==
    IF i > Len(instrs) \/ s.fault THEN s
    ELSE RunSeq(instrs, i + 1,
                IF Fault(instrs[i], s.stack) # ""
                THEN [s EXCEPT !.fault = TRUE]
                ELSE [stack |-> ExecStack(instrs[i], s.stack, s.mem),
                      mem   |-> ExecMem(instrs[i], s.stack, s.mem),
                      fault |-> FALSE])

\* the sequence of the spill noted by mark, run from the present state of
\* the reference machine
AfterSpill(mark) ==
    RunSeq(SubSeq(lower.code, mark.start + 1, mark.start + 5), 1,
           [stack |-> vstack, mem |-> vmem, fault |-> FALSE])

\* the reference machine is about to run the sequence of an outward spill
AtOutwardSpill(mark) ==
    /\ pc = "run"
    /\ mark.outward
    /\ mark.start = ip

\* the index in vstack of the slot at the depth of the spill
SlotOf(mark) == Len(vstack) - mark.depth

\* C16 as stated: the outward spill sequence load(r), SWAP(depth + 1),
\* store(r) leaves the stack unchanged, the slot at depth included, and
\* writes the value of that slot to the memory word of register r.
C16_StackUnchanged ==
    \A k \in 1..Len(lower.marks) :
        AtOutwardSpill(lower.marks[k]) =>
            LET mark  == lower.marks[k]
                after == AfterSpill(mark)
            IN  /\ ~after.fault
                /\ after.stack = vstack
                /\ MLoad(after.mem, Word(mark.register * WordBytes)) = vstack[SlotOf(mark)]

\* C16: the outward spill sequence load(r), SWAP(depth + 1), store(r)
\* keeps the height of the stack and every slot but the one at depth,
\* writes the value of that slot to the memory word of register r, and
\* leaves in the slot the word the register held before.
C16_SlotExchanged ==
    \A k \in 1..Len(lower.marks) :
        AtOutwardSpill(lower.marks[k]) =>
            LET mark  == lower.marks[k]
                r     == Word(mark.register * WordBytes)
                after == AfterSpill(mark)
            IN  /\ ~after.fault
                /\ lower.code[ip + 1] = Push(r)
                /\ lower.code[ip + 3] = Swap(mark.depth + 1)
                /\ after.stack = [vstack EXCEPT ![SlotOf(mark)] = MLoad(vmem, r)]
                /\ MLoad(after.mem, r) = vstack[SlotOf(mark)]
                /\ \A a \in (DOMAIN vmem \cup DOMAIN after.mem)
                            \ {Addresses(r)[j] : j \in 1..WordBytes} :
                       ReadByte(after.mem, a) = ReadByte(vmem, a)

\* the machine is about to run an outward spill of a slot at depth 0
\* with 14 values below it, into the second register: the slot holds
\* p14 = 24, the register word another value
C16_Witness ==
    \E k \in 1..Len(lower.marks) :
        /\ AtOutwardSpill(lower.marks[k])
        /\ lower.marks[k].register = 1
        /\ Len(vstack) = Window - 1
        /\ vstack[SlotOf(lower.marks[k])] = Word(24)
        /\ MLoad(vmem, Word(lower.marks[k].register * WordBytes)) # Word(24)

\* the index fields of the meta map: <<v, "main", index>> for each key
\* and <<v, "copy", index>> for each copy_index that is set
MetaFields ==
    {<<v, "main", machine.meta[v].main_index>> : v \in DOMAIN machine.meta}
    \cup {<<v, "copy", machine.meta[v].copy_index>> :
              v \in {w \in DOMAIN machine.meta : machine.meta[w].copy_index # None}}

\* every index field of the meta map names the stack entry of its
\* variable and kind
MetaPointsAtStack ==
    \A f \in MetaFields :
        /\ f[3] \in 0..(Len(machine.stack) - 1)
        /\ machine.stack[f[3] + 1] = (IF f[2] = "main" THEN Main(f[1]) ELSE Copy(f[1]))

\* every stack entry is named by the matching field of its variable's meta
StackNamedByMeta ==
    \A i \in 1..Len(machine.stack) :
        LET instance == machine.stack[i]
        IN  <<instance[2], IF instance[1] = "Main" THEN "main" ELSE "copy", i - 1>> \in MetaFields

\* no two index fields of the meta map hold the same stack index
MetaIndicesDistinct ==
    \A f, g \in MetaFields : f # g => f[3] # g[3]

\* C17: in every state of the abstract stack machine that push, pop,
\* rotate_to, copy_to and apply produce, each meta entry points at the
\* Main entry of its variable and, if its copy_index is set, at a Copy
\* entry of it; every stack entry is referenced by its variable's meta;
\* and no two meta index fields hold the same stack index.
C17_MetaStackConsistent ==
    Scheduling =>
        /\ MetaPointsAtStack
        /\ StackNamedByMeta
        /\ MetaIndicesDistinct

\* the instance an argument position leaves on the abstract stack
ArgInstance(j) == IF dups[j] THEN Copy(block[si].args[j]) ELSE Main(block[si].args[j])

\* C18: in each round of the argument loop, for position i (from 0), the
\* target depth i minus the running dup counter after its decrement is
\* the number of non-duplicated arguments at positions below i; it is at
\* least 0, at most nargs - 1 and below 16 (so within the preconditions
\* of rotate_to and copy_to and the planner's assertion), and the
\* argument is placed at that depth.
C18_TargetDepth ==
    [][pc = "args" =>
          LET i        == ai - 1
              to_depth == i - ndups'
          IN  /\ ndups' >= 0
              /\ to_depth = Cardinality({j \in 1..i : ~dups[j]})
              /\ to_depth >= 0
              /\ to_depth <= arity(block[si].op)[1] - 1
              /\ to_depth < Window
              /\ machine'.panic = "" =>
                    /\ machine'.stack[Len(machine'.stack) - to_depth] = ArgInstance(ai)
                    /\ LET last == machine'.code[Len(machine'.code)]
                       IN  \/ last[1] = "rot" /\ last[3] = to_depth
                           \/ last[1] = "dup" /\ dups[ai] /\ to_depth = 0]_vars

\* the second argument of a two-argument operator, read again later, has
\* been copied to depth 1 below the place of the first, which is not
\* duplicated: i = 1, running dup counter 0
C18_Witness ==
    /\ pc = "args"
    /\ ai = 1
    /\ dups = <<FALSE, TRUE>>
    /\ ndups = 0
    /\ AtDepth(1) = Copy(block[si].args[2])
    /\ machine.code[Len(machine.code)] = Rotate(0, 1)

\* the argument positions <<i, j>> of the block that name v, in statement
\* i at a position after j or in a later statement
UsesAfter(v, i, j) ==
    {p \in UNION {{<<k, l>> : l \in 1..Len(block[k].args)} : k \in 1..Len(block)} :
        /\ block[p[1]].kind = "op"
        /\ block[p[1]].args[p[2]] = v
        /\ p[1] > i \/ (p[1] = i /\ p[2] > j)}

\* C19: occurs starts as the number of argument positions naming each
\* variable; during scheduling occurs[v] is the number of those positions
\* not yet counted (at each position of the current statement the dup
\* flag tells whether one remains), never below 0; and a defined variable
\* is on the abstract stack between statements exactly while its count is
\* above 0: the statement that brings it to 0, or the sweep when it is 0
\* at definition, removes it.
C19_OccursCountsUses ==
    Scheduling =>
        /\ \A v \in DOMAIN occurs :
               /\ occurs[v] >= 0
               /\ occurs[v] = Cardinality(UsesAfter(v, IF pc = "stmt" THEN si ELSE si + 1, 0))
        /\ DOMAIN occurs = 0..(VarCount(block) - 1)
        /\ pc \in {"args", "apply"} =>
               \A j \in 1..Len(dups) :
                   dups[j] = (UsesAfter(block[si].args[j], si, j) # {})
        /\ pc = "stmt" =>
               \A v \in DefinedVars :
                   /\ occurs[v] > 0 => Entries(Main(v)) = 1
                   /\ occurs[v] = 0 => Entries(Main(v)) = 0 /\ Entries(Copy(v)) = 0

\* for let a = const 7; let b = const 8; let c = add a b; pop c: the add
\* has brought the counts of a and b to 0 and removed them, and c, read by
\* the pop, is on the stack
C19_Witness ==
    /\ block = S2Block
    /\ pc = "stmt"
    /\ si = 4
    /\ occurs[0] = 0 /\ occurs[1] = 0 /\ occurs[2] = 1
    /\ machine.stack = <<Main(2)>>

\* the slots of the stack after pre-instruction instr of code index k,
\* each slot value being named by the code index of the instruction that
\* made it (a push, a Dup, or the operator it is the result of)
ValuesStep(vs, instr, k) ==
    LET n == Len(vs)
    IN  CASE instr[1] = "rot"  -> SwapAt(SwapAt(vs, n - 1 - instr[2], n - 1), n - 1, n - 1 - instr[3])
          [] instr[1] = "dup"  -> Append(vs, k)
          [] instr[1] = "push" -> Append(vs, k)
          [] instr[1] = "data" ->
               SubSeq(vs, 1, n - arity(instr[2])[1])
               \o [i \in 1..arity(instr[2])[2] |-> k]

\* the slots after the pre-instructions of code indices i..j, by halves
RECURSIVE ValuesRange(_, _, _)
ValuesRange(vs, i, j) ==
    IF i > j THEN vs
    ELSE IF i = j THEN ValuesStep(vs, machine.code[i + 1], i)
    ELSE LET m    == (i + j) \div 2
             left == ValuesRange(vs, i, m)
         IN  IF left = vs THEN ValuesRange(vs, m + 1, j)
             ELSE ValuesRange(left, m + 1, j)

\* the slots after the pre-instruction of code index k
ValuesAfter(k) == ValuesRange(<< >>, 0, k)

\* the slot value a spill record is about
ValueOf(s) == LET vs == ValuesAfter(s.code_index) IN vs[Len(vs) - s.depth]

\* the code indices of the deep rotates that hand the value on top of
\* the stack to a register
HandOffs(value) ==
    {h \in 1..(Len(machine.code) - 1) :
        /\ machine.code[h + 1][1] = "rot"
        /\ machine.code[h + 1][2] >= Window
        /\ Top(ValuesAfter(h - 1)) = value}

\* make_spills has returned
Planned == pc \in {"lower", "run", "done"}

\* C20: in the list make_spills returns no two records have the same
\* code_index, so the list is strictly increasing in code_index whatever
\* the sort does with equal keys; each slot value has at most one outward
\* record; and each inward record comes, in code_index, after the outward
\* record or the hand-off by a deep rotate that put its value in memory.
C20_SpillsOrdered ==
    Planned =>
        /\ \A i, j \in 1..Len(spills) :
               i < j => spills[i].code_index < spills[j].code_index
        /\ \A i, j \in 1..Len(spills) :
               (i # j /\ spills[i].outward /\ spills[j].outward)
               => ValueOf(spills[i]) # ValueOf(spills[j])
        /\ \A j \in 1..Len(spills) :
               ~spills[j].outward =>
                   \/ \E i \in 1..Len(spills) :
                         /\ spills[i].outward
                         /\ ValueOf(spills[i]) = ValueOf(spills[j])
                         /\ spills[i].code_index < spills[j].code_index
                   \/ \E h \in HandOffs(ValueOf(spills[j])) : h < spills[j].code_index

\* make_spills has returned four records, among them an inward record of
\* a value that has an outward record and one of a value handed to a
\* register by a deep rotate
C20_Witness ==
    /\ Planned
    /\ Len(spills) = 4
    /\ \E i, j \in 1..Len(spills) :
           /\ spills[i].outward /\ ~spills[j].outward
           /\ ValueOf(spills[i]) = ValueOf(spills[j])
    /\ \E j \in 1..Len(spills) :
           /\ ~spills[j].outward
           /\ HandOffs(ValueOf(spills[j])) # {}
           /\ \A i \in 1..Len(spills) :
                  spills[i].outward => ValueOf(spills[i]) # ValueOf(spills[j])

\* ---------------------------------------------------------------------
\* C21
\* the slots of the lowering stack that hold register r, and the places of
\* r in the free list
SlotsHolding(l, r) == {i \in 1..Len(l.stack) : l.stack[i] = r}
FreePlaces(l, r) == {i \in 1..Len(l.free_registers) : l.free_registers[i] = r}

\* every minted register is in the free list exactly once or held by
\* exactly one slot, and nothing else is in the free list or in a slot
Exclusive(l) ==
    /\ \A r \in 0..(l.register_count - 1) :
           Cardinality(SlotsHolding(l, r)) + Cardinality(FreePlaces(l, r)) = 1
    /\ \A i \in 1..Len(l.stack) :
           l.stack[i] # None => l.stack[i] \in 0..(l.register_count - 1)
    /\ \A i \in 1..Len(l.free_registers) :
           l.free_registers[i] \in 0..(l.register_count - 1)

\* lowering has consumed all of machine.code without a panic
LoweringFinished == pc \in {"run", "done", "fault"} /\ lower.panic = ""

\* C21: register exclusivity in lowering. In every state of the lowering
\* pass each register index below register_count is in the free list
\* exactly once or held by exactly one slot of the physical stack, never
\* both and never by two slots; a round of the lowering loop mints a
\* register only when the free list is empty (then exactly one, which a
\* slot holds afterwards); and when lowering has finished no slot holds a
\* register and every minted register is in the free list.
C21_RegisterExclusivity ==
    [][/\ lower.panic = "" => Exclusive(lower)
       /\ lower'.panic = "" => Exclusive(lower')
       /\ lower'.register_count > lower.register_count =>
              /\ lower.free_registers = << >>
              /\ lower'.register_count = lower.register_count + 1
              /\ SlotsHolding(lower', lower.register_count) # {}
       /\ LoweringFinished' =>
              /\ \A i \in 1..Len(lower'.stack) : lower'.stack[i] = None
              /\ Len(lower'.free_registers) = lower'.register_count]_vars

\* lowering is under way, a register that was freed by a restore has been
\* taken again from the free list by a later outward spill (two outward
\* marks and an inward one, still only one register minted), and a slot
\* holds it
C21_Witness ==
    /\ pc = "lower"
    /\ lower.panic = ""
    /\ lower.register_count = 1
    /\ Len(lower.marks) = 3
    /\ lower.marks[2].outward = FALSE
    /\ lower.marks[3].outward /\ lower.marks[3].register = 0
    /\ lower.free_registers = << >>
    /\ SlotsHolding(lower, 0) # {}

\* lowering has finished for a block that minted three registers: the
\* stack is empty and the three registers are in the free list
C21_WitnessFinished ==
    /\ LoweringFinished
    /\ lower.register_count = 3
    /\ lower.stack = << >>
    /\ Len(lower.free_registers) = 3

\* a deep rotate has freed the register of the old top: two registers were
\* minted by two outward spills, no restore has happened yet, register 1
\* is free and register 0 is held by a slot
C21_WitnessExchange ==
    /\ pc = "lower"
    /\ lower.panic = ""
    /\ lower.register_count = 2
    /\ Len(lower.marks) = 2
    /\ lower.free_registers = <<1>>
    /\ SlotsHolding(lower, 0) # {}

\* ---------------------------------------------------------------------
\* C22
\* the declarations of the source: <<k, l>> for the l-th result of
\* statement k; those before statement k; those of a name
Declarations == UNION {{<<k, l>> : l \in 1..Len(ast[k].ress)} : k \in 1..Len(ast)}
DeclaredBefore(k, name) == {d \in Declarations : d[1] < k /\ ast[d[1]].ress[d[2]] = name}

\* the place of a declaration in definition order, from 0
OrderOf(d) ==
    Cardinality({e \in Declarations : e[1] < d[1] \/ (e[1] = d[1] /\ e[2] < d[2])})

\* the reads of the source: <<k, j>> for the j-th argument of statement
\* k; those of a name that no earlier statement declares
Reads == UNION {{<<k, j>> : j \in 1..Len(ast[k].args)} : k \in 1..Len(ast)}
UnboundReads == {u \in Reads : DeclaredBefore(u[1], ast[u[1]].args[u[2]]) = {}}

\* what the claim says of the outcome of resolve on ast: the error, or the
\* resolved block and var_count
ScopesResolved ==
    IF UnboundReads # {}
    THEN LET u == CHOOSE u \in UnboundReads :
                      \A w \in UnboundReads :
                          u[1] < w[1] \/ (u[1] = w[1] /\ u[2] <= w[2])
         IN  /\ pc = "unresolved"
             /\ err = "Unknown variable: " \o ast[u[1]].args[u[2]]
    ELSE /\ pc # "unresolved"
         /\ var_count = Cardinality(Declarations)
         /\ Len(block) = Len(ast)
         /\ \A k \in 1..Len(ast) :
                /\ block[k].kind = ast[k].kind
                /\ block[k].c = ast[k].c
                /\ block[k].op = ast[k].op
                /\ Len(block[k].ress) = Len(ast[k].ress)
                /\ Len(block[k].args) = Len(ast[k].args)
         /\ \A d \in Declarations : block[d[1]].ress[d[2]] = OrderOf(d)
         /\ \A u \in Reads :
                \E d \in DeclaredBefore(u[1], ast[u[1]].args[u[2]]) :
                    /\ block[u[1]].args[u[2]] = OrderOf(d)
                    /\ \A e \in DeclaredBefore(u[1], ast[u[1]].args[u[2]]) :
                           OrderOf(e) <= OrderOf(d)
         /\ \A v \in 0..(var_count - 1) :
                \E k \in 1..Len(block) :
                    /\ Cardinality({l \in 1..Len(block[k].ress) :
                                       block[k].ress[l] = v}) = 1
                    /\ \A m \in 1..Len(block) :
                           /\ m # k => \A l \in 1..Len(block[m].ress) :
                                           block[m].ress[l] # v
                           /\ (\E j \in 1..Len(block[m].args) :
                                   block[m].args[j] = v) => k < m

\* C22: resolve gives the declared results the indices 0 .. var_count - 1
\* in definition order, a fresh one for each declaration also of a name
\* declared before; each argument becomes the index of the latest
\* declaration of its name in an earlier statement (a statement reads the
\* bindings made before it, not its own results); a name no earlier
\* statement declares makes resolve fail with "Unknown variable" (the
\* first such name in reading order); hence in the output every Var is a
\* result of exactly one statement, which precedes every statement that
\* has it as an argument.
C22_ResolveScopes == [][pc = "resolve" => ScopesResolved']_vars

\* resolve has run on a source that declares a and b twice:
\* "let a = add a b" reads the first a and b and declares the third
\* variable, "let b = add a b" reads that one and the first b
C22_Witness ==
    /\ pc = "stmt"
    /\ si = 1
    /\ Len(ast) = 6
    /\ ast[3].ress = <<"a">> /\ ast[3].args = <<"a", "b">>
    /\ ast[4].ress = <<"b">> /\ ast[4].args = <<"a", "b">>
    /\ var_count = 4
    /\ block[3].ress = <<2>> /\ block[3].args = <<0, 1>>
    /\ block[4].ress = <<3>> /\ block[4].args = <<2, 1>>
    /\ block[5].args = <<2>> /\ block[6].args = <<3>>

\* resolve has failed on "let a = const 1; let b = add a d; let c = add c a"
\* at the name d
C22_WitnessUnbound ==
    /\ pc = "unresolved"
    /\ Len(ast) = 3
    /\ ast[2].args = <<"a", "d">>
    /\ err = "Unknown variable: d"
    /\ block = << >>

\* the blocks of the scenarios and of the family are the resolved forms of
\* their sources
ResolvedForms ==
    (pc # "resolve" /\ ast \notin ShadowSources) =>
        /\ pc # "unresolved"
        /\ block \in Programs
        /\ Named(block) = ast
        /\ var_count = VarCount(block)

====
